---------------------------- MODULE Spec2Model ----------------------------
(***************************************************************************)
(* A model of the StrictlyVC funding scraper and NYC job finder:           *)
(*   - the text functions of src/job_search.py and src/parser.py           *)
(*     (_generate_slugs, _filter_jobs, parse_funding_paragraph,            *)
(*     extract_funding_sections), computed on strings represented as       *)
(*     sequences of one-character strings;                                 *)
(*   - the ATS search loops of src/job_search.py and src/app.py;           *)
(*   - the Flask run state of src/app.py (run_state, run_lock, api_run,    *)
(*     api_status and the _run_pipeline thread).                           *)
(* Each part has its own specification (SpecSlug, SpecFilter, ...); the    *)
(* variables of the other parts stay at their idle values.                 *)
(***************************************************************************)
EXTENDS Naturals, Integers, Sequences, FiniteSets, TLC

VARIABLES
    company_name,   \* _generate_slugs: the argument
    slug_result,    \* _generate_slugs: the returned list
    slug_pc         \* "call" before _generate_slugs has run, "done" after

slugVars == <<company_name, slug_result, slug_pc>>

VARIABLES
    jobs,           \* _filter_jobs: the argument, a list of listings
    filtered,       \* _filter_jobs: the returned list
    filter_pc       \* "call" before _filter_jobs has run, "done" after

filterVars == <<jobs, filtered, filter_pc>>

VARIABLES
    text,           \* parse_funding_paragraph: the argument
    entry,          \* parse_funding_paragraph: the returned dict
    patterns_searched, \* parse_funding_paragraph: the patterns pattern.search was called on, in order
    parse_pc        \* "call" before parse_funding_paragraph has run, "done" after

parseVars == <<text, entry, patterns_searched, parse_pc>>

VARIABLES
    soup,           \* extract_funding_sections: the document BeautifulSoup built from html
    sections,       \* extract_funding_sections: the returned list
    section_pc      \* "call" before extract_funding_sections has run, "done" after

sectionVars == <<soup, sections, section_pc>>

VARIABLES
    driver,         \* the caller of the job search: "main" (search_all_companies) or "app" (_run_pipeline)
    companies,      \* the list of company names the driver loops over
    company_ix,     \* the driver's loop index i (0-based, as enumerate gives it)
    search_pc,      \* where the job search stands
    slugs,          \* _fetch_company_jobs: slugs of the company being searched
    slug_ix,        \* _fetch_company_jobs: index of the slug being tried (1-based)
    platform_ix,    \* _fetch_company_jobs: index into ATS_FETCHERS (1-based)
    attempts,       \* the ATS requests of the current _fetch_company_jobs call, with their results
    fetch_ret,      \* the value _fetch_company_jobs returned last
    ats_response,   \* what the ATS answered the last request with
    all_jobs,       \* the listings the driver has collected
    events          \* what the run has done so far: searches begun and ended, requests, sleeps

searchVars == <<driver, companies, company_ix, search_pc, slugs, slug_ix, platform_ix,
                attempts, fetch_ret, ats_response, all_jobs, events>>

VARIABLES
    run_state,      \* app.py: the dict run_state
    run_lock,       \* app.py: run_lock; <<>> when free, else its holder
    handler_pc,     \* per request handler: where it stands in api_run or api_status
    handler_req,    \* per request handler: the number of the /api/run request it serves
    requests,       \* the number of /api/run requests received so far
    response,       \* per /api/run request: "none", "started" or "409"
    thread_pc,      \* per /api/run request: where its _run_pipeline thread stands
    thread_loc,     \* per thread: the locals of _run_pipeline
    terminal_writes \* per thread: how often it has written a terminal status

appVars == <<run_state, run_lock, handler_pc, handler_req, requests, response,
             thread_pc, thread_loc, terminal_writes>>

VARIABLES
    pipe_driver,    \* the driver of the run: "main" (main) or "app" (_run_pipeline)
    skip_jobs,      \* main: args.skip_jobs
    pipe_pc,        \* where the driver stands
    pipe_loc,       \* the driver's locals
    calls           \* the collaborator calls the run has made, in order

pipelineVars == <<pipe_driver, skip_jobs, pipe_pc, pipe_loc, calls>>

vars == <<slugVars, filterVars, parseVars, sectionVars, searchVars, appVars, pipelineVars>>

otherThanSlug == <<filterVars, parseVars, sectionVars, searchVars, appVars, pipelineVars>>

otherThanFilter == <<slugVars, parseVars, sectionVars, searchVars, appVars, pipelineVars>>

otherThanParse == <<slugVars, filterVars, sectionVars, searchVars, appVars, pipelineVars>>

otherThanSections == <<slugVars, filterVars, parseVars, searchVars, appVars, pipelineVars>>

otherThanSearch == <<slugVars, filterVars, parseVars, sectionVars, appVars, pipelineVars>>

otherThanApp == <<slugVars, filterVars, parseVars, sectionVars, searchVars, pipelineVars>>

otherThanPipeline == <<slugVars, filterVars, parseVars, sectionVars, searchVars, appVars>>

(***************************************************************************)
(* Strings.  A Python str is a sequence of one-character strings.          *)
(***************************************************************************)
UpperAZ ==
    <<"A","B","C","D","E","F","G","H","I","J","K","L","M","N","O","P","Q","R","S","T","U","V","W","X","Y","Z">>

LowerAZ ==
    <<"a","b","c","d","e","f","g","h","i","j","k","l","m","n","o","p","q","r","s","t","u","v","w","x","y","z">>

DigitChars == {"0","1","2","3","4","5","6","7","8","9"}

AsciiUpper == {UpperAZ[i] : i \in 1..26}

AsciiLower == {LowerAZ[i] : i \in 1..26}

\* Letters outside ASCII that the inputs of the model use (str.isalpha is true of them).
OtherUpper == {"É"}

OtherLower == {"é"}

WhitespaceChars == {" ", "\t", "\n"}

\* str.lower() of one character.
LowerChar(c) ==
    IF c \in AsciiUpper THEN LowerAZ[CHOOSE i \in 1..26 : UpperAZ[i] = c]
    ELSE IF c = "É" THEN "é"
    ELSE c

\* str.lower()
Lower(s) == [i \in 1..Len(s) |-> LowerChar(s[i])]

\* needle in hay
Contains(hay, needle) ==
    \E i \in 0..(Len(hay) - Len(needle)) :
        \A k \in 1..Len(needle) : hay[i + k] = needle[k]

\* The characters of s that satisfy Keep, in order.
RECURSIVE FilterChars(_, _)
FilterChars(s, keep) ==
    IF s = <<>> THEN <<>>
    ELSE (IF Head(s) \in keep THEN <<Head(s)>> ELSE <<>>) \o FilterChars(Tail(s), keep)

\* str.split(): the maximal runs of non-whitespace characters.
RECURSIVE SplitFrom(_, _, _)
SplitFrom(s, i, word) ==
    IF i > Len(s) THEN (IF word = <<>> THEN <<>> ELSE <<word>>)
    ELSE IF s[i] \in WhitespaceChars
         THEN (IF word = <<>> THEN <<>> ELSE <<word>>) \o SplitFrom(s, i + 1, <<>>)
         ELSE SplitFrom(s, i + 1, Append(word, s[i]))

Split(s) == SplitFrom(s, 1, <<>>)

\* str.strip()
RECURSIVE LStrip(_)
LStrip(s) ==
    IF s # <<>> /\ Head(s) \in WhitespaceChars THEN LStrip(Tail(s)) ELSE s

RECURSIVE RStrip(_)
RStrip(s) ==
    IF s # <<>> /\ s[Len(s)] \in WhitespaceChars
    THEN RStrip(SubSeq(s, 1, Len(s) - 1)) ELSE s

Strip(s) == RStrip(LStrip(s))

\* sep.join(words)
RECURSIVE Join(_, _)
Join(words, sep) ==
    IF words = <<>> THEN <<>>
    ELSE IF Len(words) = 1 THEN words[1]
    ELSE words[1] \o sep \o Join(Tail(words), sep)

\* The elements of a sequence.
Range(s) == {s[i] : i \in 1..Len(s)}

\* All sequences over S of length at most n.
SeqsUpTo(S, n) == UNION {[1..k -> S] : k \in 0..n}

(***************************************************************************)
(* src/config.py                                                           *)
(***************************************************************************)
FUNDING_HEADINGS ==
    << <<"m","a","s","s","i","v","e"," ","f","u","n","d","i","n","g","s">>,
       <<"b","i","g","-","b","u","t","-","n","o","t","-","c","r","a","z","y","-","b","i","g"," ","f","u","n","d","i","n","g","s">>,
       <<"s","m","a","l","l","e","r"," ","f","u","n","d","i","n","g","s">> >>

LOCATION_KEYWORDS ==
    << <<"n","e","w"," ","y","o","r","k">>,
       <<"n","y","c">>,
       <<"n","y">>,
       <<"r","e","m","o","t","e">> >>

SLUG_STRIP_SUFFIXES ==
    << <<"i","n","c">>,
       <<"l","l","c">>,
       <<"c","o">>,
       <<"c","o","r","p">>,
       <<"c","o","r","p","o","r","a","t","i","o","n">>,
       <<"c","o","m","p","a","n","y">>,
       <<"a","i">>,
       <<"l","a","b","s">>,
       <<"l","a","b">>,
       <<"t","e","c","h","n","o","l","o","g","i","e","s">>,
       <<"t","e","c","h","n","o","l","o","g","y">>,
       <<"t","e","c","h">>,
       <<"h","e","a","l","t","h">>,
       <<"m","e","d","i","c","a","l">>,
       <<"t","h","e","r","a","p","e","u","t","i","c","s">>,
       <<"b","i","o">>,
       <<"b","i","o","t","e","c","h","n","o","l","o","g","i","e","s">>,
       <<"s","y","s","t","e","m","s">>,
       <<"s","e","c","u","r","i","t","y">>,
       <<"r","o","b","o","t","i","c","s">>,
       <<"h","o","l","d","i","n","g","s">>,
       <<"e","n","t","e","r","p","r","i","s","e","s">>,
       <<"s","e","r","v","i","c","e","s">>,
       <<"s","o","l","u","t","i","o","n","s">>,
       <<"m","a","r","k","e","t","s">>,
       <<"c","o","m","p","u","t","i","n","g">> >>

ENTRY_LEVEL_KEYWORDS ==
    << <<"e","n","t","r","y"," ","l","e","v","e","l">>,
       <<"e","n","t","r","y","-","l","e","v","e","l">>,
       <<"j","u","n","i","o","r">>,
       <<"a","s","s","o","c","i","a","t","e">>,
       <<"a","n","a","l","y","s","t">>,
       <<"n","e","w"," ","g","r","a","d">>,
       <<"n","e","w"," ","g","r","a","d","u","a","t","e">>,
       <<"j","r",".">>,
       <<"j","r"," ">>,
       <<" ","i"," ">>,
       <<" ","1"," ">> >>

ROLE_KEYWORDS ==
    << <<"s","o","f","t","w","a","r","e">>,
       <<"e","n","g","i","n","e","e","r">>,
       <<"d","e","v","e","l","o","p","e","r">>,
       <<"p","r","o","g","r","a","m","m","i","n","g">>,
       <<"d","a","t","a">>,
       <<"m","a","c","h","i","n","e"," ","l","e","a","r","n","i","n","g">>,
       <<"m","l"," ">>,
       <<" ","a","i"," ">>,
       <<"d","e","v","o","p","s">>,
       <<"c","l","o","u","d">>,
       <<"f","r","o","n","t","e","n","d">>,
       <<"f","r","o","n","t","-","e","n","d">>,
       <<"b","a","c","k","e","n","d">>,
       <<"b","a","c","k","-","e","n","d">>,
       <<"f","u","l","l","s","t","a","c","k">>,
       <<"f","u","l","l","-","s","t","a","c","k">>,
       <<"s","d","r">>,
       <<"b","d","r">>,
       <<"a","c","c","o","u","n","t"," ","e","x","e","c","u","t","i","v","e">>,
       <<"b","u","s","i","n","e","s","s"," ","d","e","v","e","l","o","p","m","e","n","t">>,
       <<"s","a","l","e","s"," ","d","e","v","e","l","o","p","m","e","n","t">>,
       <<"s","a","l","e","s"," ","e","n","g","i","n","e","e","r">>,
       <<"s","o","l","u","t","i","o","n","s">>,
       <<"p","r","o","d","u","c","t">>,
       <<"t","e","c","h","n","i","c","a","l">>,
       <<" ","i","t"," ">>,
       <<"s","e","c","u","r","i","t","y">>,
       <<"q","a">>,
       <<"q","u","a","l","i","t","y"," ","a","s","s","u","r","a","n","c","e">>,
       <<"s","u","p","p","o","r","t"," ","e","n","g","i","n","e","e","r">> >>

SENIOR_KEYWORDS ==
    << <<"s","e","n","i","o","r">>,
       <<"s","r",".">>,
       <<"s","r"," ">>,
       <<"s","t","a","f","f">>,
       <<"p","r","i","n","c","i","p","a","l">>,
       <<"l","e","a","d">>,
       <<"m","a","n","a","g","e","r">>,
       <<"d","i","r","e","c","t","o","r">>,
       <<"v","p"," ">>,
       <<"v","i","c","e"," ","p","r","e","s","i","d","e","n","t">>,
       <<"h","e","a","d"," ","o","f">>,
       <<"c","h","i","e","f">>,
       <<"a","r","c","h","i","t","e","c","t">>,
       <<"d","i","s","t","i","n","g","u","i","s","h","e","d">>,
       <<" ","i","i">>,
       <<" ","i","i","i">>,
       <<" ","i","v">>,
       <<" ","v"," ">>,
       <<"s","t","r","a","t","e","g","i","s","t">> >>

(***************************************************************************)
(* src/job_search.py: _generate_slugs                                      *)
(***************************************************************************)
\* The characters re.sub(r"[^a-z0-9\s]", "", ...) keeps.
SlugKeepChars == AsciiLower \cup DigitChars \cup WhitespaceChars

\* cleaned = re.sub(r"[^a-z0-9\s]", "", company_name.lower()).strip(); cleaned.split()
SlugWords(name) == Split(Strip(FilterChars(Lower(name), SlugKeepChars)))

\* SlugsOf with the hyphenated form first.
SlugsUnordered(words) ==
    IF Len(words) > 1 THEN <<Join(words, <<"-">>), Join(words, <<>>)>>
    ELSE IF Len(words) = 1 THEN <<words[1]>>
    ELSE <<>>

\* The candidates of one word list (lines 39-45, 50-54): joined, then hyphenated;
\* or the single word.
SlugsOf(words) ==
    IF Len(words) > 1 THEN <<Join(words, <<>>), Join(words, <<"-">>)>>
    ELSE IF Len(words) = 1 THEN <<words[1]>>
    ELSE <<>>

\* stripped = [w for w in words if w not in config.SLUG_STRIP_SUFFIXES]
RECURSIVE StripSuffixes(_)
StripSuffixes(words) ==
    IF words = <<>> THEN <<>>
    ELSE (IF Head(words) \in Range(SLUG_STRIP_SUFFIXES) THEN <<>> ELSE <<Head(words)>>)
         \o StripSuffixes(Tail(words))

\* The loop over slugs with the set seen: the first occurrence of each is kept.
RECURSIVE Unique(_, _)
Unique(ss, seen) ==
    IF ss = <<>> THEN <<>>
    ELSE IF Head(ss) \in seen THEN Unique(Tail(ss), seen)
    ELSE <<Head(ss)>> \o Unique(Tail(ss), seen \cup {Head(ss)})

\* slugs before de-duplication (lines 36-54)
CandidateSlugs(words) ==
    LET stripped == StripSuffixes(words)
    IN  SlugsOf(words)
        \o (IF stripped # <<>> /\ stripped # words THEN SlugsOf(stripped) ELSE <<>>)

generate_slugs(name) == Unique(CandidateSlugs(SlugWords(name)), {})

\* The words company names are drawn from: plain words, suffix words, punctuation,
\* a letter outside ASCII, a token that cleans to nothing, a digit and a trailing space.
NameTokens ==
    { <<"G","a","t","h","e","r">>,
      <<"A","I">>,
      <<"N","o","t","i","o","n">>,
      <<"L","a","b","s",",">>,
      <<"C","a","f","é">>,
      <<"&">>,
      <<"X","-","9"," ">> }

MaxNameTokens == 3

CompanyNames == {Join(ts, <<" ">>) : ts \in SeqsUpTo(NameTokens, MaxNameTokens)}

AppIdle ==
    /\ run_state = <<>> /\ run_lock = <<>> /\ handler_pc = <<>> /\ handler_req = <<>>
    /\ requests = 0 /\ response = <<>>
    /\ thread_pc = <<>> /\ thread_loc = <<>> /\ terminal_writes = <<>>

NoReturn == [jobs |-> <<>>, platform |-> ""]

SearchIdle ==
    /\ driver = "none" /\ companies = <<>> /\ company_ix = 0 /\ search_pc = "idle"
    /\ slugs = <<>> /\ slug_ix = 0 /\ platform_ix = 0
    /\ attempts = <<>> /\ fetch_ret = NoReturn /\ ats_response = "none"
    /\ all_jobs = <<>> /\ events = <<>>

PipelineIdle ==
    /\ pipe_driver = "none" /\ skip_jobs = FALSE /\ pipe_pc = "idle" /\ pipe_loc = <<>>
    /\ calls = <<>>

FilterIdle == jobs = <<>> /\ filtered = <<>> /\ filter_pc = "idle"

ParseIdle == text = <<>> /\ entry = <<>> /\ patterns_searched = <<>> /\ parse_pc = "idle"

SectionsIdle == soup = <<>> /\ sections = <<>> /\ section_pc = "idle"

SlugIdle == company_name = <<>> /\ slug_result = <<>> /\ slug_pc = "idle"

InitSlug ==
    /\ company_name \in CompanyNames /\ slug_result = <<>> /\ slug_pc = "call"
    /\ FilterIdle /\ ParseIdle /\ SectionsIdle /\ SearchIdle /\ AppIdle /\ PipelineIdle

\* One call of _generate_slugs(company_name).
GenerateSlugs ==
    /\ slug_pc = "call"
    /\ slug_result' = generate_slugs(company_name)
    /\ slug_pc' = "done"
    /\ UNCHANGED <<company_name, otherThanSlug>>

NextSlug == GenerateSlugs

SpecSlug == InitSlug /\ [][NextSlug]_vars

(***************************************************************************)
(* C4                                                                      *)
(***************************************************************************)
\* u is s with duplicates removed, keeping the first occurrence of each element.
IsFirstOccurrences(u, s) ==
    /\ Range(u) = Range(s)
    /\ \A i, j \in 1..Len(u) : i # j => u[i] # u[j]
    /\ \A i, j \in 1..Len(u) :
         i < j => (CHOOSE m \in 1..Len(s) : s[m] = u[i] /\ \A n \in 1..(m - 1) : s[n] # u[i])
                  < (CHOOSE m \in 1..Len(s) : s[m] = u[j] /\ \A n \in 1..(m - 1) : s[n] # u[j])

\* The word list W of the claim, for a given notion of "letter".
ClaimWords(name, letters) ==
    Split(FilterChars(Lower(name), letters \cup DigitChars \cup WhitespaceChars))

ClaimForms(W) ==
    IF Len(W) > 1 THEN <<Join(W, <<>>), Join(W, <<"-">>)>>
    ELSE IF Len(W) = 1 THEN <<W[1]>> ELSE <<>>

\* concat(W), hyphen-join(W) or W[0]; then the same for S if S is non-empty and differs from W.
ClaimSequence(W) ==
    LET S == SelectSeq(W, LAMBDA w : \A k \in 1..Len(SLUG_STRIP_SUFFIXES) : w # SLUG_STRIP_SUFFIXES[k])
    IN  ClaimForms(W) \o (IF S # <<>> /\ S # W THEN ClaimForms(S) ELSE <<>>)

SlugExamples ==
    /\ company_name = <<"G","a","t","h","e","r"," ","A","I">>
       => slug_result = <<<<"g","a","t","h","e","r","a","i">>, <<"g","a","t","h","e","r","-","a","i">>, <<"g","a","t","h","e","r">>>>
    /\ company_name = <<"N","o","t","i","o","n">> => slug_result = <<<<"n","o","t","i","o","n">>>>

matches_keywords_unpadded(title, keywords) ==
    \E k \in 1..Len(keywords) : Contains(Lower(title), Lower(keywords[k]))

\* title_lower = f" {title.lower()} "; any(kw.lower() in title_lower for kw in keywords)
matches_keywords(title, keywords) ==
    LET title_lower == <<" ">> \o Lower(title) \o <<" ">>
    IN  \E k \in 1..Len(keywords) : Contains(title_lower, Lower(keywords[k]))

\* loc_lower = location.lower(); any(kw in loc_lower for kw in config.LOCATION_KEYWORDS)
matches_location(location) ==
    LET loc_lower == Lower(location)
    IN  \E k \in 1..Len(LOCATION_KEYWORDS) : Contains(loc_lower, LOCATION_KEYWORDS[k])

\* The loop of _filter_jobs: each test that fails skips the listing (continue).
RECURSIVE filter_jobs(_)
filter_jobs(js) ==
    IF js = <<>> THEN <<>>
    ELSE LET job == Head(js)
             rest == filter_jobs(Tail(js))
         IN  IF ~matches_keywords(job.title, ROLE_KEYWORDS) THEN rest
             ELSE IF ~matches_keywords(job.title, ENTRY_LEVEL_KEYWORDS) THEN rest
             ELSE IF matches_keywords(job.title, SENIOR_KEYWORDS) THEN rest
             ELSE IF ~matches_location(job.location) THEN rest
             ELSE <<job>> \o rest

\* The titles and locations listings are drawn from.
JobTitles ==
    { <<"S","e","n","i","o","r"," ","S","o","f","t","w","a","r","e"," ","E","n","g","i","n","e","e","r">>,
      <<"S","o","f","t","w","a","r","e"," ","E","n","g","i","n","e","e","r"," ","I">>,
      <<"S","o","f","t","w","a","r","e"," ","E","n","g","i","n","e","e","r"," ","I","I">>,
      <<"A","I"," ","A","s","s","o","c","i","a","t","e">>,
      <<"S","a","l","e","s"," ","A","s","s","o","c","i","a","t","e">>,
      <<"J","r"," ","D","e","v","e","l","o","p","e","r">> }

JobLocations ==
    { <<"N","e","w"," ","Y","o","r","k",","," ","N","Y">>,
      <<"R","e","m","o","t","e">>,
      <<"B","o","s","t","o","n",","," ","M","A">>,
      <<"A","l","b","a","n","y">> }

Listings == [title : JobTitles, location : JobLocations]

MaxJobs == 2

InitFilter ==
    /\ jobs \in SeqsUpTo(Listings, MaxJobs) /\ filtered = <<>> /\ filter_pc = "call"
    /\ SlugIdle /\ ParseIdle /\ SectionsIdle /\ SearchIdle /\ AppIdle /\ PipelineIdle

\* One call of _filter_jobs(jobs).
FilterJobs ==
    /\ filter_pc = "call"
    /\ filtered' = filter_jobs(jobs)
    /\ filter_pc' = "done"
    /\ UNCHANGED <<jobs, otherThanFilter>>

NextFilter == FilterJobs

SpecFilter == InitFilter /\ [][NextFilter]_vars

(***************************************************************************)
(* C3                                                                      *)
(***************************************************************************)
\* s contains one of the keywords as a substring.
ContainsSome(s, keywords) ==
    \E k \in 1..Len(keywords) : \E i \in 1..Len(s) :
        /\ i + Len(keywords[k]) - 1 <= Len(s)
        /\ SubSeq(s, i, i + Len(keywords[k]) - 1) = keywords[k]

\* The four predicates of the claim.
ClaimKeeps(job) ==
    LET padded == <<" ">> \o Lower(job.title) \o <<" ">>
    IN  /\ ContainsSome(padded, ROLE_KEYWORDS)
        /\ ContainsSome(padded, ENTRY_LEVEL_KEYWORDS)
        /\ ~ContainsSome(padded, SENIOR_KEYWORDS)
        /\ ContainsSome(Lower(job.location), LOCATION_KEYWORDS)

SeniorInNewYork ==
    [title |-> <<"S","e","n","i","o","r"," ","S","o","f","t","w","a","r","e"," ","E","n","g","i","n","e","e","r">>,
     location |-> <<"N","e","w"," ","Y","o","r","k",","," ","N","Y">>]

EngineerOneRemote ==
    [title |-> <<"S","o","f","t","w","a","r","e"," ","E","n","g","i","n","e","e","r"," ","I">>,
     location |-> <<"R","e","m","o","t","e">>]

\* C3: _filter_jobs returns, in input order and unmodified, exactly the listings for
\* which all four predicates hold (role keyword, entry-level keyword and no senior
\* keyword in the padded lowercased title, location keyword in the lowercased
\* location); 'Senior Software Engineer' in 'New York, NY' is excluded and
\* 'Software Engineer I' in 'Remote' is included.
C3_Filter ==
    filter_pc = "done" =>
        /\ filtered = SelectSeq(jobs, ClaimKeeps)
        /\ SeniorInNewYork \notin Range(filtered)
        /\ EngineerOneRemote \in Range(jobs) => EngineerOneRemote \in Range(filtered)

\* Both listings of the claim have been filtered: the senior one is dropped although
\* role and location match, the level-1 one is kept.
C3_Witness ==
    /\ filter_pc = "done"
    /\ jobs = <<SeniorInNewYork, EngineerOneRemote>>
    /\ filtered = <<EngineerOneRemote>>
    /\ matches_keywords(SeniorInNewYork.title, ROLE_KEYWORDS)
    /\ matches_location(SeniorInNewYork.location)

(***************************************************************************)
(* src/job_search.py: _fetch_company_jobs, search_company_jobs,            *)
(* search_all_companies; src/app.py: the job search loop of _run_pipeline  *)
(***************************************************************************)
\* config.JOB_SEARCH_DELAY, in milliseconds
JOB_SEARCH_DELAY == 1000

\* time.sleep(0.3) of _fetch_company_jobs, in milliseconds
ApiCallDelay == 300

ReorderedFetchers == <<"lever", "greenhouse", "ashby">>

\* The platform names of ATS_FETCHERS, in order.
ATS_FETCHERS == <<"greenhouse", "lever", "ashby">>

\* SleepsAfter with the bound off by one.
SleepsAfterOffByOne(ix, n) == ix < n - 2

\* if i < len(companies) - 1: time.sleep(config.JOB_SEARCH_DELAY)
SleepsAfter(ix, n) == ix < n - 1

\* The names the searched companies are drawn from: one slug, three slugs, no slug.
SearchNames ==
    { <<"N","o","t","i","o","n">>,
      <<"G","a","t","h","e","r"," ","A","I">>,
      <<"&">> }

MaxCompanies == 2

\* list(dict.fromkeys(companies)): the drivers are handed distinct names.
CompanyLists ==
    {cs \in SeqsUpTo(SearchNames, MaxCompanies) :
        \A a, b \in 1..Len(cs) : a # b => cs[a] # cs[b]}

\* What an ATS answers with when it knows the slug: a non-empty list of listings.
AtsAnswers ==
    { <<[title |-> <<"S","o","f","t","w","a","r","e"," ","E","n","g","i","n","e","e","r"," ","I">>,
         location |-> <<"R","e","m","o","t","e">>]>>,
      <<[title |-> <<"S","e","n","i","o","r"," ","S","o","f","t","w","a","r","e"," ","E","n","g","i","n","e","e","r">>,
         location |-> <<"N","e","w"," ","Y","o","r","k",","," ","N","Y">>]>> }

\* What an ATS request can end with:
\*   network_error  requests.get raises a RequestException (connection error, timeout)
\*   http_status    a status code other than 200
\*   not_json       status 200, and resp.json() raises ValueError
\*   no_jobs        status 200 and a body of the platform's shape without listings
\*   listings       status 200 and a body of the platform's shape with listings
\*   json_null      status 200 and the body null
\*   null_location  status 200 and listings whose location (for lever: categories) is null
FailureKinds == {"network_error", "http_status", "not_json", "json_null", "null_location"}

AtsResponses ==
    {[kind |-> k, jobs |-> <<>>] :
        k \in {"network_error", "http_status", "not_json", "no_jobs", "json_null"}}
    \cup {[kind |-> k, jobs |-> answer] :
             k \in {"listings", "null_location"}, answer \in AtsAnswers}

\* The fetcher of the platform raises an exception that its except clause, which
\* names RequestException and ValueError, does not catch: data.get on a body that is
\* null (75, 126; _try_lever returns None for a body that is not a list, 100), and
\* .get on a location or categories that is null (81, 104).
FetcherRaises(platform, resp) ==
    \/ resp.kind = "json_null" /\ platform \in {"greenhouse", "ashby"}
    \/ resp.kind = "null_location" /\ platform \in {"greenhouse", "lever"}

\* The listings the fetcher returns; <<>> stands for None too.
FetcherJobs(platform, resp) ==
    IF resp.kind \in {"listings", "null_location"} /\ ~FetcherRaises(platform, resp)
    THEN resp.jobs
    ELSE <<>>

\* The three tests of _filter_jobs on the title (175-182).
PassesTitleTests(title) ==
    /\ matches_keywords(title, ROLE_KEYWORDS)
    /\ matches_keywords(title, ENTRY_LEVEL_KEYWORDS)
    /\ ~matches_keywords(title, SENIOR_KEYWORDS)

\* _filter_jobs raises: location.lower() (23) on the location None, which
\* _try_ashby passes on, of a listing that passed the tests on the title.
FilterRaises(listings, kind) ==
    /\ kind = "null_location"
    /\ \E k \in 1..Len(listings) : PassesTitleTests(listings[k].title)

InitSearch ==
    /\ driver \in {"main", "app"}
    /\ companies \in CompanyLists
    /\ company_ix = 0 /\ search_pc = "for"
    /\ slugs = <<>> /\ slug_ix = 0 /\ platform_ix = 0
    /\ attempts = <<>> /\ fetch_ret = NoReturn /\ ats_response = "none"
    /\ all_jobs = <<>> /\ events = <<>>
    /\ SlugIdle /\ FilterIdle /\ ParseIdle /\ SectionsIdle /\ AppIdle /\ PipelineIdle

\* The top of the driver's loop (job_search.py 228-229, app.py 76-86): the loop ends,
\* or (after the progress message of _run_pipeline) search_company_jobs is called and
\* _fetch_company_jobs computes the slugs.
ForCompany ==
    /\ search_pc = "for"
    /\ IF company_ix >= Len(companies)
       THEN /\ search_pc' = "end"
            /\ UNCHANGED <<slugs, slug_ix, platform_ix, attempts, events>>
       ELSE /\ slugs' = generate_slugs(companies[company_ix + 1])
            /\ slug_ix' = 1 /\ platform_ix' = 1
            /\ attempts' = <<>>
            /\ events' = (IF driver = "app" THEN Append(events, [e |-> "progress"]) ELSE events)
                          \o <<[e |-> "search", company |-> company_ix]>>
            /\ search_pc' = "next_attempt"
    /\ UNCHANGED <<driver, companies, company_ix, fetch_ret, all_jobs, ats_response, otherThanSearch>>

\* The heads of the two for loops of _fetch_company_jobs (152-153): the next slug and
\* platform, or the return ([], "") when the slugs are used up.
NextAttempt ==
    /\ search_pc = "next_attempt"
    /\ IF slug_ix > Len(slugs)
       THEN /\ fetch_ret' = NoReturn
            /\ search_pc' = "fetched"
       ELSE /\ search_pc' = "request"
            /\ UNCHANGED fetch_ret
    /\ UNCHANGED <<driver, companies, company_ix, slugs, slug_ix, platform_ix, attempts, all_jobs,
                   events, ats_response, otherThanSearch>>

\* jobs = fetcher(slug) (154-160): the ATS answers the request; the fetcher returns
\* listings, which _fetch_company_jobs returns with the platform's name, or None,
\* or it raises.
Request ==
    /\ search_pc = "request"
    /\ \E resp \in AtsResponses :
        LET platform == ATS_FETCHERS[platform_ix]
            found == FetcherJobs(platform, resp)
        IN  /\ ats_response' = resp.kind
            /\ attempts' = Append(attempts, [slug |-> slugs[slug_ix],
                                              platform |-> platform,
                                              jobs |-> found])
            /\ IF FetcherRaises(platform, resp)
               THEN /\ events' = events \o <<[e |-> "request", company |-> company_ix],
                                             [e |-> "raise", company |-> company_ix]>>
                    /\ search_pc' = "raised"
                    /\ UNCHANGED fetch_ret
               ELSE /\ events' = Append(events, [e |-> "request", company |-> company_ix])
                    /\ IF found # <<>>
                       THEN /\ fetch_ret' = [jobs |-> found, platform |-> platform]
                            /\ search_pc' = "fetched"
                       ELSE /\ search_pc' = "api_sleep"
                            /\ UNCHANGED fetch_ret
    /\ UNCHANGED <<driver, companies, company_ix, slugs, slug_ix, platform_ix, all_jobs, otherThanSearch>>

\* time.sleep(0.3) (161), then the next platform, or the next slug's first platform.
ApiSleep ==
    /\ search_pc = "api_sleep"
    /\ events' = Append(events, [e |-> "sleep", ms |-> ApiCallDelay])
    /\ IF platform_ix < Len(ATS_FETCHERS)
       THEN platform_ix' = platform_ix + 1 /\ UNCHANGED slug_ix
       ELSE platform_ix' = 1 /\ slug_ix' = slug_ix + 1
    /\ search_pc' = "next_attempt"
    /\ UNCHANGED <<driver, companies, company_ix, slugs, attempts, fetch_ret, all_jobs, ats_response, otherThanSearch>>

\* search_company_jobs after _fetch_company_jobs has returned (200-215), and the
\* driver's collection of its result (job_search.py 230-231, app.py 87-88).  A
\* listing whose location is None makes _filter_jobs raise when it comes to the
\* location test.
Collect ==
    /\ search_pc = "fetched"
    /\ IF FilterRaises(fetch_ret.jobs, ats_response)
       THEN /\ events' = Append(events, [e |-> "raise", company |-> company_ix])
            /\ search_pc' = "raised"
            /\ UNCHANGED all_jobs
       ELSE /\ all_jobs' = all_jobs \o (IF ats_response = "null_location" THEN <<>>
                                        ELSE filter_jobs(fetch_ret.jobs))
            /\ events' = Append(events, [e |-> "searched", company |-> company_ix])
            /\ search_pc' = IF SleepsAfter(company_ix, Len(companies)) THEN "delay" ELSE "advance"
    /\ UNCHANGED <<driver, companies, company_ix, slugs, slug_ix, platform_ix, attempts, fetch_ret,
                   ats_response, otherThanSearch>>

\* time.sleep(config.JOB_SEARCH_DELAY) (job_search.py 233-234, app.py 89-90)
DelaySleep ==
    /\ search_pc = "delay"
    /\ events' = Append(events, [e |-> "sleep", ms |-> JOB_SEARCH_DELAY])
    /\ search_pc' = "advance"
    /\ UNCHANGED <<driver, companies, company_ix, slugs, slug_ix, platform_ix, attempts, fetch_ret,
                   all_jobs, ats_response, otherThanSearch>>

\* The next iteration of the driver's loop.
Advance ==
    /\ search_pc = "advance"
    /\ company_ix' = company_ix + 1
    /\ search_pc' = "for"
    /\ UNCHANGED <<driver, companies, slugs, slug_ix, platform_ix, attempts, fetch_ret,
                   all_jobs, events, ats_response, otherThanSearch>>

NextSearch ==
    \/ ForCompany
    \/ NextAttempt
    \/ Request
    \/ ApiSleep
    \/ Collect
    \/ DelaySleep
    \/ Advance

SpecSearch == InitSearch /\ [][NextSearch]_vars

(***************************************************************************)
(* C5                                                                      *)
(***************************************************************************)
\* The attempts of the claim for one company: for each slug of _generate_slugs in
\* order, the platforms greenhouse, lever, ashby in that order.
RECURSIVE PriorityOrder(_)
PriorityOrder(ss) ==
    IF ss = <<>> THEN <<>>
    ELSE << [slug |-> Head(ss), platform |-> "greenhouse"],
            [slug |-> Head(ss), platform |-> "lever"],
            [slug |-> Head(ss), platform |-> "ashby"] >> \o PriorityOrder(Tail(ss))

Tried == [k \in 1..Len(attempts) |-> [slug |-> attempts[k].slug, platform |-> attempts[k].platform]]

InFetch == search_pc \in {"next_attempt", "request", "api_sleep", "fetched"}

\* C5: the requests of one _fetch_company_jobs call follow the priority order (slugs
\* of _generate_slugs in order, for each greenhouse, lever, ashby); no request follows
\* one that yielded listings; the call returns the listings and platform of that
\* attempt, and returns ([], "") exactly when every attempt of every slug was made
\* and yielded nothing.
C5_FetchOrder ==
    InFetch =>
        LET order == PriorityOrder(generate_slugs(companies[company_ix + 1]))
        IN  /\ Len(attempts) <= Len(order)
            /\ Tried = SubSeq(order, 1, Len(attempts))
            /\ \A k \in 1..(Len(attempts) - 1) : attempts[k].jobs = <<>>
            /\ search_pc = "fetched" =>
                 /\ (\E k \in 1..Len(attempts) : attempts[k].jobs # <<>>)
                      => /\ fetch_ret.jobs = attempts[Len(attempts)].jobs
                         /\ fetch_ret.platform = attempts[Len(attempts)].platform
                 /\ fetch_ret = [jobs |-> <<>>, platform |-> ""]
                      <=> /\ Tried = order
                          /\ \A k \in 1..Len(attempts) : attempts[k].jobs = <<>>

\* 'Gather AI' was found on the fourth attempt: its second slug, on greenhouse, after
\* the three platforms of the first slug yielded nothing.
C5_Witness ==
    /\ search_pc = "fetched"
    /\ companies[company_ix + 1] = <<"G","a","t","h","e","r"," ","A","I">>
    /\ Len(attempts) = 4
    /\ attempts[4].slug = <<"g","a","t","h","e","r","-","a","i">>
    /\ fetch_ret.platform = "greenhouse"
    /\ fetch_ret.jobs # <<>>

(***************************************************************************)
(* C6                                                                      *)
(***************************************************************************)
EventsAt(kind) == {k \in 1..Len(events) : events[k].e = kind}

SleepBetween(a, b) == \E k \in (a + 1)..(b - 1) : events[k].e = "sleep"

\* C6: in both drivers the company searches do not overlap, a sleep of
\* JOB_SEARCH_DELAY lies between the end of one company's search and the start of
\* the next, and a sleep lies between any two ATS requests of the run.
C6_Serialized ==
    /\ \A a \in EventsAt("search") : \A b \in EventsAt("search") :
         a < b => \E k \in (a + 1)..(b - 1) :
                     events[k].e = "searched" /\ events[k].company = events[a].company
    /\ \A a \in EventsAt("searched") : \A b \in EventsAt("search") :
         a < b => \E k \in (a + 1)..(b - 1) :
                     events[k].e = "sleep" /\ events[k].ms = JOB_SEARCH_DELAY
    /\ \A a \in EventsAt("request") : \A b \in EventsAt("request") :
         a < b => SleepBetween(a, b)

\* A run of two companies has ended; the first company was found by its first
\* request, so the only sleep before the second company's request is the driver's.
C6_Witness ==
    /\ search_pc = "end"
    /\ Len(companies) = 2
    /\ \E a \in EventsAt("request") : \E b \in EventsAt("request") :
         /\ a < b
         /\ events[a].company = 0 /\ events[b].company = 1
         /\ Cardinality({k \in (a + 1)..(b - 1) : events[k].e = "sleep"}) = 1

(***************************************************************************)
(* src/app.py: run_state, run_lock, api_run, api_status, _run_pipeline     *)
(***************************************************************************)
NumHandlers == 2

MaxStartRequests == 2

MaxPipelineCompanies == 1

\* The threads of the server that handle requests.
Handlers == 1..NumHandlers

\* The /api/run requests; the _run_pipeline thread of an accepted request bears its number.
Threads == 1..MaxStartRequests

\* run_state as the module creates it (24-32); <<>> stands for [] and for {}, and a
\* progress message is its format string followed by its arguments.
InitialRunState ==
    [running |-> FALSE, status |-> "idle", progress |-> <<"">>,
     fundings |-> <<>>, jobs |-> <<>>, combined |-> <<>>, summary |-> <<>>]

InitialLocals == [n |-> 0, ci |-> 0, jobs |-> <<>>, raised |-> FALSE]

\* The with run_lock blocks of _run_pipeline, by what they write.
ProgressBlocks ==
    {"progress_fetching", "progress_scraping", "progress_parsing", "progress_searching",
     "progress_saving"}

TerminalBlocks == {"done_no_articles", "done_not_scraped", "done_complete", "error"}

\* api_run that never finds a run in progress.
NeverRunning(rs) == FALSE

\* if run_state["running"] (160)
AlreadyRunning(rs) == rs.running

\* A rejection that announces the start all the same.
RejectedStateRestarted(rs) == [rs EXCEPT !.progress = <<"Starting pipeline...">>]

\* return jsonify({"error": "Pipeline already running"}), 409 (161): run_state is
\* left as it is.
RejectedState(rs) == rs

\* api_run's update without the reset of the results.
StartedStateKeepingResults(rs) ==
    [rs EXCEPT !.running = TRUE, !.status = "running",
               !.progress = <<"Starting pipeline...">>]

\* run_state.update(running=True, status="running", ..., summary={}) (162-170)
StartedState(rs) ==
    [rs EXCEPT !.running = TRUE, !.status = "running",
               !.progress = <<"Starting pipeline...">>,
               !.fundings = <<>>, !.jobs = <<>>, !.combined = <<>>, !.summary = <<>>]

\* The no-articles exit that only reports progress.
NoArticlesProgressOnly(rs) == [rs EXCEPT !.progress = <<"No articles found.">>]

\* run_state.update(status="done", running=False, progress="No articles found.") (46)
NoArticlesState(rs) ==
    [rs EXCEPT !.status = "done", !.running = FALSE, !.progress = <<"No articles found.">>]

\* run_state.update(status="done", running=False, progress="No articles could be scraped.") (57)
NotScrapedState(rs) ==
    [rs EXCEPT !.status = "done", !.running = FALSE,
               !.progress = <<"No articles could be scraped.">>]

\* fundings_display, jobs_display, combined_display and the summary (101-143) of run t
\* with locals loc: one parsed entry per company, the listings found, and their join.
FundingsDisplay(t, loc) == [c \in 1..loc.n |-> [run |-> t, company |-> c]]

CombinedDisplay(t, loc) ==
    [k \in 1..Len(loc.jobs) |-> [run |-> t, company |-> loc.jobs[k].company, funded |-> TRUE]]

\* A final update that publishes the results and leaves the status "running".
CompleteStatePublishing(rs, t, loc) ==
    [rs EXCEPT !.running = FALSE, !.progress = <<"Complete!">>,
               !.fundings = FundingsDisplay(t, loc),
               !.jobs = loc.jobs,
               !.combined = CombinedDisplay(t, loc),
               !.summary = <<[run |-> t, companies_searched |-> loc.n,
                              jobs_found |-> Len(loc.jobs)]>>]

\* run_state.update(status="done", running=False, progress="Complete!", ...) (130-144)
CompleteState(rs, t, loc) ==
    [rs EXCEPT !.status = "done", !.running = FALSE, !.progress = <<"Complete!">>,
               !.fundings = FundingsDisplay(t, loc),
               !.jobs = loc.jobs,
               !.combined = CombinedDisplay(t, loc),
               !.summary = <<[run |-> t, companies_searched |-> loc.n,
                              jobs_found |-> Len(loc.jobs)]>>]

\* An except clause that puts the status back to "idle".
ErrorStateReset(rs) ==
    [rs EXCEPT !.status = "idle", !.running = FALSE,
               !.progress = <<"Pipeline failed. Check logs.">>]

\* run_state.update(status="error", running=False, progress="Pipeline failed. Check logs.") (149)
ErrorState(rs) ==
    [rs EXCEPT !.status = "error", !.running = FALSE,
               !.progress = <<"Pipeline failed. Check logs.">>]

\* A run_state that says the run is over.
IsTerminal(rs) == rs.status \in {"done", "error"} /\ ~rs.running

InitApp ==
    /\ run_state = InitialRunState
    /\ run_lock = <<>>
    /\ handler_pc = [h \in Handlers |-> "idle"]
    /\ handler_req = [h \in Handlers |-> 0]
    /\ requests = 0
    /\ response = [r \in Threads |-> "none"]
    /\ thread_pc = [t \in Threads |-> "unborn"]
    /\ thread_loc = [t \in Threads |-> InitialLocals]
    /\ terminal_writes = [t \in Threads |-> 0]
    /\ SlugIdle /\ FilterIdle /\ ParseIdle /\ SectionsIdle /\ SearchIdle /\ PipelineIdle

\* A POST /api/run is handled by h (157-159): the handler enters with run_lock when
\* the lock is free; until then the request waits.
ApiRunBegin(h) ==
    /\ handler_pc[h] = "idle"
    /\ requests < MaxStartRequests
    /\ run_lock = <<>>
    /\ run_lock' = <<"handler", h>>
    /\ requests' = requests + 1
    /\ handler_req' = [handler_req EXCEPT ![h] = requests + 1]
    /\ handler_pc' = [handler_pc EXCEPT ![h] = "run_check"]
    /\ UNCHANGED <<run_state, response, thread_pc, thread_loc, terminal_writes,
                   otherThanApp>>

\* The body of api_run's with block (160-170): the 409 answer, or the update; the
\* lock is released on leaving the block.
ApiRunCheck(h) ==
    /\ handler_pc[h] = "run_check"
    /\ run_lock = <<"handler", h>>
    /\ IF AlreadyRunning(run_state)
       THEN /\ response' = [response EXCEPT ![handler_req[h]] = "409"]
            /\ handler_pc' = [handler_pc EXCEPT ![h] = "idle"]
            /\ run_state' = RejectedState(run_state)
       ELSE /\ run_state' = StartedState(run_state)
            /\ handler_pc' = [handler_pc EXCEPT ![h] = "run_spawn"]
            /\ UNCHANGED response
    /\ run_lock' = <<>>
    /\ UNCHANGED <<handler_req, requests, thread_pc, thread_loc,
                   terminal_writes, otherThanApp>>

\* thread.start() and the "started" answer (172-174).
ApiRunSpawn(h) ==
    /\ handler_pc[h] = "run_spawn"
    /\ thread_pc' = [thread_pc EXCEPT ![handler_req[h]] = "progress_fetching"]
    /\ response' = [response EXCEPT ![handler_req[h]] = "started"]
    /\ handler_pc' = [handler_pc EXCEPT ![h] = "idle"]
    /\ UNCHANGED <<run_state, run_lock, handler_req, requests, thread_loc,
                   terminal_writes, otherThanApp>>

\* A GET /api/status is handled by h (177-179): the handler enters with run_lock
\* when the lock is free.
ApiStatusBegin(h) ==
    /\ handler_pc[h] = "idle"
    /\ run_lock = <<>>
    /\ run_lock' = <<"handler", h>>
    /\ handler_pc' = [handler_pc EXCEPT ![h] = "status_copy"]
    /\ UNCHANGED <<run_state, handler_req, requests, response, thread_pc, thread_loc,
                   terminal_writes, otherThanApp>>

\* return jsonify(run_state) inside the with block (179-180): the answer is
\* run_state as it is while the handler holds the lock.
ApiStatusCopy(h) ==
    /\ handler_pc[h] = "status_copy"
    /\ run_lock = <<"handler", h>>
    /\ run_lock' = <<>>
    /\ handler_pc' = [handler_pc EXCEPT ![h] = "idle"]
    /\ UNCHANGED <<run_state, handler_req, requests, response, thread_pc, thread_loc,
                   terminal_writes, otherThanApp>>

\* with run_lock: in _run_pipeline (41, 45, 52, 56, 61, 77, 93, 129, 148).
ThreadAcquire(t) ==
    /\ thread_pc[t] \in ProgressBlocks \cup TerminalBlocks
    /\ run_lock = <<>>
    /\ run_lock' = <<"thread", t>>
    /\ UNCHANGED <<run_state, handler_pc, handler_req, requests, response, thread_pc, thread_loc, terminal_writes, otherThanApp>>

\* The message a progress block writes.
ProgressMessage(t) ==
    CASE thread_pc[t] = "progress_fetching" -> <<"Fetching article URLs from sitemap...">>
      [] thread_pc[t] = "progress_scraping" -> <<"Scraping {len(urls)} article(s) with Playwright...">>
      [] thread_pc[t] = "progress_parsing" -> <<"Parsing funding entries...">>
      [] thread_pc[t] = "progress_searching" ->
            <<"Searching jobs for {company} ({i + 1}/{len(companies)})...",
              thread_loc[t].ci + 1, thread_loc[t].n>>
      [] thread_pc[t] = "progress_saving" -> <<"Saving results...">>

\* The call that follows a progress block.
AfterProgress(t) ==
    CASE thread_pc[t] = "progress_fetching" -> "fetch"
      [] thread_pc[t] = "progress_scraping" -> "scrape"
      [] thread_pc[t] = "progress_parsing" -> "parse"
      [] thread_pc[t] = "progress_searching" -> "search"
      [] thread_pc[t] = "progress_saving" -> "save"

\* A progress block that keeps the lock over the call that follows it.
ThreadProgressKeepingLock(t) ==
    /\ thread_pc[t] \in ProgressBlocks
    /\ run_lock = <<"thread", t>>
    /\ run_state' = [run_state EXCEPT !.progress = ProgressMessage(t)]
    /\ thread_pc' = [thread_pc EXCEPT ![t] = AfterProgress(t)]
    /\ UNCHANGED <<run_lock, handler_pc, handler_req, requests, response, thread_loc,
                   terminal_writes, otherThanApp>>

\* run_state["progress"] = ... (42, 53, 62, 78-80, 94), and the release of the lock.
ThreadProgress(t) ==
    /\ thread_pc[t] \in ProgressBlocks
    /\ run_lock = <<"thread", t>>
    /\ run_state' = [run_state EXCEPT !.progress = ProgressMessage(t)]
    /\ run_lock' = <<>>
    /\ thread_pc' = [thread_pc EXCEPT ![t] = AfterProgress(t)]
    /\ UNCHANGED <<handler_pc, handler_req, requests, response, thread_loc,
                   terminal_writes, otherThanApp>>

\* The state a terminal block writes.
TerminalState(t) ==
    CASE thread_pc[t] = "done_no_articles" -> NoArticlesState(run_state)
      [] thread_pc[t] = "done_not_scraped" -> NotScrapedState(run_state)
      [] thread_pc[t] = "done_complete" -> CompleteState(run_state, t, thread_loc[t])
      [] thread_pc[t] = "error" -> ErrorState(run_state)

\* The run_state.update of a terminal block (46, 57, 130-144, 149), the release of
\* the lock, and the end of the thread (the return, or the end of the function), whose locals
\* are gone.
ThreadTerminal(t) ==
    /\ thread_pc[t] \in TerminalBlocks
    /\ run_lock = <<"thread", t>>
    /\ run_state' = TerminalState(t)
    /\ terminal_writes' = [terminal_writes EXCEPT
                              ![t] = IF IsTerminal(run_state') THEN @ + 1 ELSE @]
    /\ run_lock' = <<>>
    /\ thread_pc' = [thread_pc EXCEPT ![t] = "finished"]
    /\ thread_loc' = [thread_loc EXCEPT ![t] = InitialLocals]
    /\ UNCHANGED <<handler_pc, handler_req, requests, response, otherThanApp>>

\* A call raises: control goes to the except clause (146).
Raise(t) ==
    /\ thread_pc' = [thread_pc EXCEPT ![t] = "except"]
    /\ thread_loc' = [thread_loc EXCEPT ![t].raised = TRUE]

\* articles = fetch_article_urls(days_back=30) (43-49): it raises, finds nothing, or
\* finds articles.
Fetch(t) ==
    /\ thread_pc[t] = "fetch"
    /\ \/ Raise(t)
       \/ /\ thread_pc' = [thread_pc EXCEPT ![t] = "done_no_articles"]
          /\ UNCHANGED thread_loc
       \/ /\ thread_pc' = [thread_pc EXCEPT ![t] = "progress_scraping"]
          /\ UNCHANGED thread_loc
    /\ UNCHANGED <<run_state, run_lock, handler_pc, handler_req, requests, response,
                   terminal_writes, otherThanApp>>

\* scraped = scrape_articles(urls) (54-55): it raises, scrapes nothing, or scrapes.
Scrape(t) ==
    /\ thread_pc[t] = "scrape"
    /\ \/ Raise(t)
       \/ /\ thread_pc' = [thread_pc EXCEPT ![t] = "done_not_scraped"]
          /\ UNCHANGED thread_loc
       \/ /\ thread_pc' = [thread_pc EXCEPT ![t] = "progress_parsing"]
          /\ UNCHANGED thread_loc
    /\ UNCHANGED <<run_state, run_lock, handler_pc, handler_req, requests, response,
                   terminal_writes, otherThanApp>>

\* parse_article for each article, save_fundings, and the list of companies (63-73):
\* a call raises, or some number of distinct companies results.
Parse(t) ==
    /\ thread_pc[t] = "parse"
    /\ \/ Raise(t)
       \/ \E n \in 0..MaxPipelineCompanies :
            /\ thread_loc' = [thread_loc EXCEPT ![t].n = n, ![t].ci = 0, ![t].jobs = <<>>]
            /\ thread_pc' = [thread_pc EXCEPT ![t] = "for_company"]
    /\ UNCHANGED <<run_state, run_lock, handler_pc, handler_req, requests, response,
                   terminal_writes, otherThanApp>>

\* if companies: for i, company in enumerate(companies): (75-76)
ForPipelineCompany(t) ==
    /\ thread_pc[t] = "for_company"
    /\ thread_pc' = [thread_pc EXCEPT ![t] = IF thread_loc[t].ci < thread_loc[t].n
                                            THEN "progress_searching"
                                            ELSE "progress_saving"]
    /\ UNCHANGED <<run_state, run_lock, handler_pc, handler_req, requests, response,
                   thread_loc, terminal_writes, otherThanApp>>

\* df = search_company_jobs(company) and its concatenation to jobs_df (86-88): the
\* call raises, finds nothing, or finds listings.
Search(t) ==
    /\ thread_pc[t] = "search"
    /\ \/ Raise(t)
       \/ /\ thread_pc' = [thread_pc EXCEPT ![t] = "sleep"]
          /\ \/ UNCHANGED thread_loc
             \/ thread_loc' = [thread_loc EXCEPT
                                  ![t].jobs = Append(@, [run |-> t, company |-> thread_loc[t].ci + 1])]
    /\ UNCHANGED <<run_state, run_lock, handler_pc, handler_req, requests, response,
                   terminal_writes, otherThanApp>>

\* if i < len(companies) - 1: time.sleep(config.JOB_SEARCH_DELAY) (89-90), and the
\* next iteration.
PipelineSleep(t) ==
    /\ thread_pc[t] = "sleep"
    /\ thread_loc' = [thread_loc EXCEPT ![t].ci = @ + 1]
    /\ thread_pc' = [thread_pc EXCEPT ![t] = "for_company"]
    /\ UNCHANGED <<run_state, run_lock, handler_pc, handler_req, requests, response,
                   terminal_writes, otherThanApp>>

\* save_jobs, save_combined and the preparation of the display data (96-127): a
\* call raises, or all return.
Save(t) ==
    /\ thread_pc[t] = "save"
    /\ \/ Raise(t)
       \/ /\ thread_pc' = [thread_pc EXCEPT ![t] = "done_complete"]
          /\ UNCHANGED thread_loc
    /\ UNCHANGED <<run_state, run_lock, handler_pc, handler_req, requests, response,
                   terminal_writes, otherThanApp>>

\* except Exception: logger.exception("Pipeline failed") (146-147)
Except(t) ==
    /\ thread_pc[t] = "except"
    /\ thread_pc' = [thread_pc EXCEPT ![t] = "error"]
    /\ UNCHANGED <<run_state, run_lock, handler_pc, handler_req, requests, response,
                   thread_loc, terminal_writes, otherThanApp>>

HandlerStep(h) ==
    \/ ApiRunBegin(h)
    \/ ApiRunCheck(h)
    \/ ApiRunSpawn(h)
    \/ ApiStatusBegin(h)
    \/ ApiStatusCopy(h)

\* The steps of a pipeline thread other than taking the lock.
ThreadRun(t) ==
    \/ ThreadProgress(t)
    \/ ThreadTerminal(t)
    \/ Fetch(t)
    \/ Scrape(t)
    \/ Parse(t)
    \/ ForPipelineCompany(t)
    \/ Search(t)
    \/ PipelineSleep(t)
    \/ Save(t)
    \/ Except(t)

NextApp ==
    \/ \E h \in Handlers : HandlerStep(h)
    \/ \E t \in Threads : ThreadAcquire(t)
    \/ \E t \in Threads : ThreadRun(t)

SpecApp == InitApp /\ [][NextApp]_vars

\* A started thread that can take a step eventually takes one, and one that finds the
\* lock free again and again eventually gets it; a handler that holds the lock leaves
\* its with block, and one that has accepted a start request starts the thread.
\* Requests may stop arriving, and a handler may wait for the lock for ever.
FairApp ==
    /\ \A t \in Threads : WF_vars(ThreadRun(t)) /\ SF_vars(ThreadAcquire(t))
    /\ \A h \in Handlers : WF_vars(ApiRunCheck(h) \/ ApiRunSpawn(h) \/ ApiStatusCopy(h))

SpecAppFair == SpecApp /\ FairApp

(***************************************************************************)
(* C1                                                                      *)
(***************************************************************************)
\* The _run_pipeline threads that have been started and have not ended.
ActiveThreads == {t \in Threads : thread_pc[t] \notin {"unborn", "finished"}}

\* The accepted requests whose thread api_run has yet to start.
AcceptedUnstarted == {h \in Handlers : handler_pc[h] = "run_spawn"}

\* C1: at most one pipeline run is active at any time (a thread running, or an
\* accepted request about to start its thread), a run is active only while
\* run_state.running is true, and a request answered with 409 has no thread, then
\* or later.
C1_OneRun ==
    /\ Cardinality(ActiveThreads) + Cardinality(AcceptedUnstarted) <= 1
    /\ (ActiveThreads # {} \/ AcceptedUnstarted # {}) => run_state.running
    /\ \A r \in Threads : response[r] = "409" => thread_pc[r] = "unborn"
    /\ \A r \in Threads : response[r] = "started" => thread_pc[r] # "unborn"

\* A request has been rejected while the thread of another is running, and no
\* handler is still serving it.
C1_Witness ==
    \E r \in Threads : \E t \in Threads :
        /\ response[r] = "409"
        /\ thread_pc[t] = "search"
        /\ \A h \in Handlers : handler_pc[h] = "idle"

(***************************************************************************)
(* C7                                                                      *)
(***************************************************************************)
ResultsEmpty(rs) ==
    rs.fundings = <<>> /\ rs.jobs = <<>> /\ rs.combined = <<>> /\ rs.summary = <<>>

\* C7: a thread in which a call has raised does nothing but report the error; when
\* it ends, run_state has status "error", running false and empty fundings, jobs,
\* combined and summary; and whenever the status is "error" these hold.
C7_ErrorState ==
    /\ [](\A t \in Threads : thread_loc[t].raised => thread_pc[t] \in {"except", "error"})
    /\ [](run_state.status = "error" => ~run_state.running /\ ResultsEmpty(run_state))
    /\ [][\A t \in Threads :
            (thread_loc[t].raised /\ thread_pc'[t] = "finished")
                => /\ run_state'.status = "error"
                   /\ ~run_state'.running
                   /\ ResultsEmpty(run_state')]_vars

\* A second run has failed after a first run ended (the status of the first run was
\* "done": a thread writes "error" only after a call has raised, and two threads
\* have written a terminal status).
C7_Witness ==
    /\ run_state.status = "error"
    /\ \E t, u \in Threads : t # u /\ terminal_writes[t] = 1 /\ terminal_writes[u] = 1
    /\ \A t \in Threads : thread_pc[t] \in {"unborn", "finished"}

(***************************************************************************)
(* C8                                                                      *)
(***************************************************************************)
\* C8: every accepted start request is followed by the end of its thread, which
\* writes a terminal status exactly once; run_state.running never stays true for
\* ever.
C8_Terminates ==
    /\ [](\A t \in Threads :
            /\ terminal_writes[t] <= 1
            /\ thread_pc[t] = "finished" => terminal_writes[t] = 1)
    /\ \A r \in Threads :
         (\E h \in Handlers : handler_pc[h] = "run_spawn" /\ handler_req[h] = r)
            ~> (thread_pc[r] = "finished")
    /\ run_state.running ~> IsTerminal(run_state)

\* A run has gone through all its stages and written "done".
C8_Witness ==
    /\ run_state.progress = <<"Complete!">>
    /\ run_state.status = "done"
    /\ \E t \in Threads : thread_pc[t] = "finished" /\ terminal_writes[t] = 1

(***************************************************************************)
(* C9                                                                      *)
(***************************************************************************)
\* C9: the step that answers a start request with 409 changes no field of run_state;
\* and once run_state holds a terminal status, it changes only by the acceptance of a
\* start request, so that every status answer until then is that run's final state.
C9_RejectedFrame ==
    [][/\ \A r \in Threads :
            (response[r] # "409" /\ response'[r] = "409") => run_state' = run_state
       /\ (IsTerminal(run_state) /\ run_state' # run_state)
            => \E h \in Handlers : handler_pc[h] = "run_check" /\ handler_pc'[h] = "run_spawn"
      ]_vars

\* A run during which a start request was rejected has completed with results, and a
\* status request is reading them.
C9_Witness ==
    /\ \E r \in Threads : response[r] = "409"
    /\ run_state.status = "done"
    /\ run_state.fundings # <<>>
    /\ \E h \in Handlers : handler_pc[h] = "status_copy"


(***************************************************************************)
(* src/parser.py: FUNDING_PATTERNS, parse_funding_paragraph                *)
(***************************************************************************)
\* The named groups of the patterns.
GroupNames == {"company", "amount", "round", "location", "description", "lead_investor"}

\* Every group unset: groupdict() gives None for it.
NoGroups == [g \in GroupNames |-> <<>>]

UpperChar(c) ==
    IF c \in AsciiLower THEN UpperAZ[CHOOSE i \in 1..26 : LowerAZ[i] = c]
    ELSE IF c = "é" THEN "É"
    ELSE c

\* A character class [...] or, negated, [^...].
Class(chars) == [neg |-> FALSE, chars |-> chars]

NotClass(chars) == [neg |-> TRUE, chars |-> chars]

\* c matches the class; under re.IGNORECASE c matches when a case variant of it is
\* listed in the class.
MatchesClass(c, cls, ignorecase) ==
    LET listed == \/ c \in cls.chars
                  \/ ignorecase /\ (LowerChar(c) \in cls.chars \/ UpperChar(c) \in cls.chars)
    IN  listed # cls.neg

\* s continues at position i with the literal str.
MatchesLiteral(s, i, str, ignorecase) ==
    /\ i + Len(str) - 1 <= Len(s)
    /\ \A k \in 1..Len(str) :
           \/ s[i + k - 1] = str[k]
           \/ ignorecase /\ LowerChar(s[i + k - 1]) = LowerChar(str[k])

\* The nodes of a pattern, which is a sequence of nodes.
Bol == [t |-> "bol"]                                            \* ^

Lit(str) == [t |-> "lit", str |-> str]                          \* literal text

One(cls) == [t |-> "one", cls |-> cls]                          \* [...]

Plus(cls) == [t |-> "rep", cls |-> cls, min |-> 1, lazy |-> FALSE]      \* [...]+

Star(cls) == [t |-> "rep", cls |-> cls, min |-> 0, lazy |-> FALSE]      \* [...]*

PlusLazy(cls) == [t |-> "rep", cls |-> cls, min |-> 1, lazy |-> TRUE]   \* [...]+?

StarLazy(cls) == [t |-> "rep", cls |-> cls, min |-> 0, lazy |-> TRUE]   \* [...]*?

Open(name) == [t |-> "open", name |-> name]                     \* (?P<name>

Close(name) == [t |-> "close", name |-> name]                   \* ) of a named group

Alt(alts) == [t |-> "alt", alts |-> alts]                       \* (?:x|y|z)

Opt(body) == [t |-> "alt", alts |-> <<body, <<>>>>]             \* (?:x)?

\* \s, \d, . and the classes the patterns spell out.
Space == Class(WhitespaceChars)

Dot == NotClass({"\n"})

NotComma == NotClass({","})

NotDot == NotClass({"."})

NotCommaDot == NotClass({",", "."})

AZ == Class(AsciiUpper)

LocationClass == Class(AsciiUpper \cup AsciiLower \cup WhitespaceChars \cup {"."})

AmountClass == Class(DigitChars \cup {".", ","})

\* (?:has\s+)?raised\s+(?:a\s+)?\$(?P<amount>[\d.,]+\s*(?:billion|million)?)\s+
\* (?:in\s+)?(?P<round>[^.]*?(?:round|funding|seed)[^.]*?)
\* (?:\s*led\s*by\s*(?P<lead_investor>[^,.]+?))?[.,]
RaisedClause ==
    << Opt(<<Lit(<<"h","a","s">>), Plus(Space)>>),
       Lit(<<"r","a","i","s","e","d">>), Plus(Space),
       Opt(<<Lit(<<"a">>), Plus(Space)>>),
       Lit(<<"$">>),
       Open("amount"), Plus(AmountClass), Star(Space),
           Opt(<<Alt(<< <<Lit(<<"b","i","l","l","i","o","n">>)>>,
                        <<Lit(<<"m","i","l","l","i","o","n">>)>> >>)>>),
       Close("amount"),
       Plus(Space),
       Opt(<<Lit(<<"i","n">>), Plus(Space)>>),
       Open("round"), StarLazy(NotDot),
           Alt(<< <<Lit(<<"r","o","u","n","d">>)>>,
                  <<Lit(<<"f","u","n","d","i","n","g">>)>>,
                  <<Lit(<<"s","e","e","d">>)>> >>),
           StarLazy(NotDot),
       Close("round"),
       Opt(<<Star(Space), Lit(<<"l","e","d">>), Star(Space), Lit(<<"b","y">>), Star(Space),
             Open("lead_investor"), PlusLazy(NotCommaDot), Close("lead_investor")>>),
       One(Class({".", ","})) >>

\* ^(?P<company>[A-Z][^,]+),\s+
CompanyClause ==
    << Bol, Open("company"), One(AZ), Plus(NotComma), Close("company"),
       Lit(<<",">>), Plus(Space) >>

\* (?P<location>[A-Za-z\s.]+?)-based\s+(?P<description>[^,]+?),\s+
BasedClause ==
    << Open("location"), PlusLazy(LocationClass), Close("location"),
       Lit(<<"-","b","a","s","e","d">>), Plus(Space),
       Open("description"), PlusLazy(NotComma), Close("description"),
       Lit(<<",">>), Plus(Space) >>

\* The three patterns, each compiled with re.IGNORECASE.
FUNDING_PATTERNS ==
    << [ignorecase |-> TRUE,
        items |-> CompanyClause
                  \o << Lit(<<"a">>), Plus(Space), PlusLazy(Dot), One(Class({",", "-"})),
                        Star(Space) >>
                  \o BasedClause \o RaisedClause],
       [ignorecase |-> TRUE,
        items |-> CompanyClause \o << Lit(<<"a">>), Plus(Space) >>
                  \o BasedClause \o RaisedClause],
       [ignorecase |-> TRUE,
        items |-> CompanyClause \o << StarLazy(Dot) >> \o RaisedClause] >>

\* The number of characters from position i on that are in the class, one after another.
RECURSIVE Run(_, _, _, _)
Run(cls, s, i, ignorecase) ==
    IF i <= Len(s) /\ MatchesClass(s[i], cls, ignorecase)
    THEN 1 + Run(cls, s, i + 1, ignorecase)
    ELSE 0

NoMatch == [ok |-> FALSE, groups |-> NoGroups]

\* The backtracking match of the nodes `items` at position i of s, as the re module
\* does it: a greedy repetition tries the longest run first, a lazy one the shortest,
\* an alternation its branches from left to right; the first way that lets the rest
\* of the pattern match is the match.  groups holds the spans of the groups closed so far.
RECURSIVE MatchAt(_, _, _, _, _), TryRep(_, _, _, _, _, _, _, _), TryAlts(_, _, _, _, _, _, _)
MatchAt(items, s, i, groups, ignorecase) ==
    IF Len(items) = 0 THEN [ok |-> TRUE, groups |-> groups]
    ELSE
    LET it == Head(items)
        rest == Tail(items)
    IN  CASE it.t = "bol" ->
                IF i = 1 THEN MatchAt(rest, s, i, groups, ignorecase) ELSE NoMatch
          [] it.t = "lit" ->
                IF MatchesLiteral(s, i, it.str, ignorecase)
                THEN MatchAt(rest, s, i + Len(it.str), groups, ignorecase)
                ELSE NoMatch
          [] it.t = "one" ->
                IF i <= Len(s) /\ MatchesClass(s[i], it.cls, ignorecase)
                THEN MatchAt(rest, s, i + 1, groups, ignorecase)
                ELSE NoMatch
          [] it.t = "rep" ->
                LET longest == Run(it.cls, s, i, ignorecase)
                IN  IF longest < it.min THEN NoMatch
                    ELSE TryRep(rest, s, i, groups, ignorecase, it.lazy,
                                IF it.lazy THEN it.min ELSE longest,
                                IF it.lazy THEN longest ELSE it.min)
          [] it.t = "open" ->
                MatchAt(rest, s, i, [groups EXCEPT ![it.name] = <<i>>], ignorecase)
          [] it.t = "close" ->
                MatchAt(rest, s, i, [groups EXCEPT ![it.name] = <<groups[it.name][1], i>>],
                        ignorecase)
          [] it.t = "alt" ->
                TryAlts(it.alts, 1, rest, s, i, groups, ignorecase)

\* The repetition takes n characters; if the rest does not match, it takes one more
\* (lazy) or one fewer (greedy), until n has passed `last`.
TryRep(rest, s, i, groups, ignorecase, lazy, n, last) ==
    LET m == MatchAt(rest, s, i + n, groups, ignorecase)
    IN  IF m.ok THEN m
        ELSE IF n = last THEN NoMatch
        ELSE TryRep(rest, s, i, groups, ignorecase, lazy, IF lazy THEN n + 1 ELSE n - 1, last)

TryAlts(alts, k, rest, s, i, groups, ignorecase) ==
    IF k > Len(alts) THEN NoMatch
    ELSE LET m == MatchAt(alts[k] \o rest, s, i, groups, ignorecase)
         IN  IF m.ok THEN m
             ELSE TryAlts(alts, k + 1, rest, s, i, groups, ignorecase)

\* pattern.search(s): the match at the first position of s where the pattern matches.
RECURSIVE SearchFrom(_, _, _)
SearchFrom(pattern, s, start) ==
    IF start > Len(s) + 1 THEN NoMatch
    ELSE LET m == MatchAt(pattern.items, s, start, NoGroups, pattern.ignorecase)
         IN  IF m.ok THEN m ELSE SearchFrom(pattern, s, start + 1)

search(pattern, s) == SearchFrom(pattern, s, 1)

\* groups.get(name, "").strip() if groups.get(name) else "": the stripped text of the
\* group, "" for a group that is None or empty.
GroupText(m, name, s) ==
    IF Len(m.groups[name]) < 2 THEN <<>>
    ELSE Strip(SubSeq(s, m.groups[name][1], m.groups[name][2] - 1))

\* The dict returned when `match` is a match (111-120).
ParsedEntry(m, s) ==
    [company |-> GroupText(m, "company", s),
     amount |-> GroupText(m, "amount", s),
     round |-> GroupText(m, "round", s),
     location |-> GroupText(m, "location", s),
     description |-> GroupText(m, "description", s),
     lead_investor |-> GroupText(m, "lead_investor", s),
     raw_text |-> s,
     parsed |-> TRUE]

\* The dict returned when no pattern matches (123-132).
UnparsedEntry(s) ==
    [company |-> <<>>, amount |-> <<>>, round |-> <<>>, location |-> <<>>,
     description |-> <<>>, lead_investor |-> <<>>, raw_text |-> s, parsed |-> FALSE]

\* for pattern in patterns, from the last pattern to the first.
RECURSIVE ParseLastFirst(_, _, _)
ParseLastFirst(patterns, k, s) ==
    IF k > Len(patterns) THEN UnparsedEntry(s)
    ELSE LET match == search(patterns[Len(patterns) + 1 - k], s)
         IN  IF match.ok THEN ParsedEntry(match, s)
             ELSE ParseLastFirst(patterns, k + 1, s)

\* for pattern in patterns: the first pattern that matches gives the entry.
RECURSIVE ParseWith(_, _, _)
ParseWith(patterns, k, s) ==
    IF k > Len(patterns) THEN UnparsedEntry(s)
    ELSE LET match == search(patterns[k], s)
         IN  IF match.ok THEN ParsedEntry(match, s)
             ELSE ParseWith(patterns, k + 1, s)

\* The indices of the patterns the loop calls pattern.search on (107-109): the
\* return inside the loop ends it at the first match.
RECURSIVE SearchedBy(_, _, _)
SearchedBy(patterns, k, s) ==
    IF k > Len(patterns) THEN <<>>
    ELSE <<k>> \o (IF search(patterns[k], s).ok THEN <<>>
                   ELSE SearchedBy(patterns, k + 1, s))

\* parse_funding_paragraph trying only the first two patterns.
parse_without_minimal(s) == ParseWith(SubSeq(FUNDING_PATTERNS, 1, 2), 1, s)

parse_funding_paragraph(s) == ParseWith(FUNDING_PATTERNS, 1, s)

\* The paragraphs parse_funding_paragraph is called with: a sentence put together
\* from one choice for each of its parts, and up to MaxSentences sentences after it.
MaxSentences == 1

CompanyParts ==
    { <<"A","b">>,
      <<"a","b">>,
      <<"A">>,
      <<"É","b">> }

SeparatorParts ==
    { <<","," ">>,
      <<" ">> }

MiddleParts ==
    { <<>>,
      <<"a"," ","2","-","y","e","a","r","-","o","l","d",","," ","N","Y","-","b","a","s","e","d"," ","l","a","b",","," ">>,
      <<"a"," ","N","Y","-","b","a","s","e","d"," ","l","a","b",","," ">>,
      <<"a"," ","l","a","b",","," ">> }

RaisedParts ==
    { <<"r","a","i","s","e","d"," ","$">>,
      <<"h","a","s"," ","r","a","i","s","e","d"," ","a"," ","$">>,
      <<"r","a","i","s","e","s"," ","$">> }

AmountParts ==
    { <<"1">>,
      <<"2",".","5"," ","m","i","l","l","i","o","n">> }

RoundParts ==
    { <<" ","s","e","e","d">>,
      <<" ","i","n"," ","S","e","r","i","e","s"," ","A"," ","f","u","n","d","i","n","g">>,
      <<" ","l","o","a","n">> }

LedParts ==
    { <<>>,
      <<" ","l","e","d"," ","b","y"," ","X","y">> }

EndParts ==
    { <<".">>,
      <<>> }

NextSentence == <<" ","I","t"," ","h","i","r","e","s",".">>

RECURSIVE Repeat(_, _)
Repeat(s, n) == IF n = 0 THEN <<>> ELSE s \o Repeat(s, n - 1)

Paragraphs ==
    { c \o sp \o mid \o r \o a \o rd \o led \o e \o Repeat(NextSentence, n) :
        c \in CompanyParts, sp \in SeparatorParts, mid \in MiddleParts, r \in RaisedParts,
        a \in AmountParts, rd \in RoundParts, led \in LedParts, e \in EndParts,
        n \in 0..MaxSentences }

InitParse ==
    /\ text \in Paragraphs /\ entry = UnparsedEntry(<<>>) /\ patterns_searched = <<>>
    /\ parse_pc = "call"
    /\ SlugIdle /\ FilterIdle /\ SectionsIdle /\ SearchIdle /\ AppIdle /\ PipelineIdle

\* One call of parse_funding_paragraph(text).
ParseFundingParagraph ==
    /\ parse_pc = "call"
    /\ entry' = parse_funding_paragraph(text)
    /\ patterns_searched' = SearchedBy(FUNDING_PATTERNS, 1, text)
    /\ parse_pc' = "done"
    /\ UNCHANGED <<text, otherThanParse>>

NextParse == ParseFundingParagraph

SpecParse == InitParse /\ [][NextParse]_vars

(***************************************************************************)
(* C2                                                                      *)
(***************************************************************************)
\* The positions of s where a text that begins at a position of `from` and that the
\* nodes `items` describe can stop; how a repetition or an alternation chooses
\* between its ways plays no part in it.
RECURSIVE Stops(_, _, _, _)
Stops(items, s, from, ignorecase) ==
    IF Len(items) = 0 \/ from = {} THEN from
    ELSE
    LET it == Head(items)
        after ==
            CASE it.t = "bol" -> from \cap {1}
              [] it.t = "lit" ->
                    {i + Len(it.str) : i \in {j \in from : MatchesLiteral(s, j, it.str, ignorecase)}}
              [] it.t = "one" ->
                    {i + 1 : i \in {j \in from : j <= Len(s) /\ MatchesClass(s[j], it.cls, ignorecase)}}
              [] it.t = "rep" ->
                    UNION {(i + it.min)..(i + Run(it.cls, s, i, ignorecase)) : i \in from}
              [] it.t \in {"open", "close"} -> from
              [] it.t = "alt" ->
                    UNION {Stops(it.alts[k], s, from, ignorecase) : k \in 1..Len(it.alts)}
    IN  Stops(Tail(items), s, after, ignorecase)

\* Some part of s is a text the pattern describes.
PatternMatches(pattern, s) ==
    \E start \in 1..(Len(s) + 1) : Stops(pattern.items, s, {start}, pattern.ignorecase) # {}

EntryKeys ==
    {"company", "amount", "round", "location", "description", "lead_investor",
     "raw_text", "parsed"}

\* C2: for every paragraph P, parse_funding_paragraph(P) returns a record with all
\* eight keys whose raw_text is P unchanged and whose parsed flag is true if and only
\* if at least one of the three patterns matches P; when parsed is false, company,
\* amount, round, location, description and lead_investor are all the empty string.
C2_Parse ==
    parse_pc = "done" =>
        /\ DOMAIN entry = EntryKeys
        /\ entry.raw_text = text
        /\ entry.parsed \in BOOLEAN
        /\ entry.parsed <=> \E k \in 1..3 : PatternMatches(FUNDING_PATTERNS[k], text)
        /\ ~entry.parsed => \A g \in GroupNames : entry[g] = <<>>

\* A paragraph that says "raised $" and that no pattern matches has been parsed.
C2_Witness ==
    /\ parse_pc = "done"
    /\ Contains(text, <<"r","a","i","s","e","d"," ","$">>)
    /\ ~entry.parsed
    /\ entry.raw_text = text

(***************************************************************************)
(* src/parser.py: extract_funding_sections                                 *)
(***************************************************************************)
\* The document BeautifulSoup builds is a tree of nodes.  A node is a tag, with a
\* name, an id, a class list and children, or a string (name "#text").  A node of
\* the document is named by its path, the child indices from the root down.
TextNode(str) ==
    [name |-> "#text", id |-> "", class |-> <<>>, children |-> <<>>, str |-> str]

Tag(name, id, class, children) ==
    [name |-> name, id |-> id, class |-> class, children |-> children, str |-> <<>>]

RECURSIVE NodeAt(_, _)
NodeAt(node, path) ==
    IF path = <<>> THEN node ELSE NodeAt(node.children[Head(path)], Tail(path))

\* el.parent
Parent(path) == SubSeq(path, 1, Len(path) - 1)

\* el.descendants: the nodes below the node at path, in document order.
RECURSIVE DescendantsFrom(_, _, _)
DescendantsFrom(root, path, k) ==
    IF k > Len(NodeAt(root, path).children) THEN <<>>
    ELSE <<path \o <<k>>>>
         \o DescendantsFrom(root, path \o <<k>>, 1)
         \o DescendantsFrom(root, path, k + 1)

\* The paths of `paths` whose node is a tag with a name in names; any tag when
\* names is {}.
RECURSIVE TagsAmong(_, _, _)
TagsAmong(root, paths, names) ==
    IF paths = <<>> THEN <<>>
    ELSE LET n == NodeAt(root, Head(paths))
         IN  (IF n.name # "#text" /\ (names = {} \/ n.name \in names)
              THEN <<Head(paths)>> ELSE <<>>)
             \o TagsAmong(root, Tail(paths), names)

\* el.find_all(names)
find_all(root, path, names) == TagsAmong(root, DescendantsFrom(root, path, 1), names)

\* el.find(names) is not None
find(root, path, names) == find_all(root, path, names) # <<>>

\* el.find_next_siblings(): the tags after el under el's parent.
find_next_siblings(root, path) ==
    LET up == Parent(path)
        last == Len(NodeAt(root, up).children)
    IN  TagsAmong(root, [k \in 1..(last - path[Len(path)]) |-> up \o <<path[Len(path)] + k>>], {})

\* el.get_text(strip=True): the strings below el, each stripped, one after another.
RECURSIVE get_text(_)
get_text(node) ==
    IF node.name = "#text" THEN Strip(node.str)
    ELSE IF node.children = <<>> THEN <<>>
    ELSE get_text(Head(node.children))
         \o get_text([node EXCEPT !.children = Tail(node.children)])

HeadingTags == {"h1", "h2", "h3", "h4"}

\* for heading in config.FUNDING_HEADINGS: if heading in text: ... break (64-67).
\* The index of the first label that lowered contains, 0 when there is none.
RECURSIVE FirstHeading(_, _)
FirstHeading(lowered, k) ==
    IF k > Len(FUNDING_HEADINGS) THEN 0
    ELSE IF Contains(lowered, FUNDING_HEADINGS[k]) THEN k
    ELSE FirstHeading(lowered, k + 1)

\* heading_elements (61-67): the pairs (el, heading) of the elements found.
RECURSIVE HeadingElements(_, _)
HeadingElements(root, els) ==
    IF els = <<>> THEN <<>>
    ELSE LET k == FirstHeading(Lower(get_text(NodeAt(root, Head(els)))), 1)
         IN  (IF k > 0 THEN << <<Head(els), FUNDING_HEADINGS[k]>> >> ELSE <<>>)
             \o HeadingElements(root, Tail(els))

\* "post-content" in " ".join(start.parent.get("class", []))
HasPostContentClass(node) ==
    Contains(Join(node.class, <<" ">>), <<"p","o","s","t","-","c","o","n","t","e","n","t">>)

\* The while loop of 74-80: from the heading up to the child of body, of the
\* document or of the content container.
RECURSIVE WalkUp(_, _)
WalkUp(root, start) ==
    IF Len(start) = 0 THEN start
    ELSE LET parent == NodeAt(root, Parent(start))
         IN  IF parent.name \in {"body", "[document]"} THEN start
             ELSE IF parent.id = "content-blocks" \/ HasPostContentClass(parent) THEN start
             ELSE WalkUp(root, Parent(start))

\* sib_text and len(sib_text) >= 20
KeepsTextFrom20(sib_text) == sib_text # <<>> /\ Len(sib_text) >= 20

\* sib_text and len(sib_text) > 20 (91)
KeepsText(sib_text) == sib_text # <<>> /\ Len(sib_text) > 20

\* The loop over the siblings (82-92) from the k-th sibling on.
RECURSIVE CollectParagraphs(_, _, _)
CollectParagraphs(root, siblings, k) ==
    IF k > Len(siblings) THEN <<>>
    ELSE LET sib_text == get_text(NodeAt(root, siblings[k]))
             inner_h == find(root, siblings[k], HeadingTags)
         IN  IF inner_h \/ FirstHeading(Lower(sib_text), 1) > 0 THEN <<>>
             ELSE (IF KeepsText(sib_text) THEN <<sib_text>> ELSE <<>>)
                  \o CollectParagraphs(root, siblings, k + 1)

\* The loop over heading_elements (69-96).
RECURSIVE SectionsOf(_, _)
SectionsOf(root, heading_elements) ==
    IF heading_elements = <<>> THEN <<>>
    ELSE LET heading_el == Head(heading_elements)[1]
             section_name == Head(heading_elements)[2]
             start == WalkUp(root, heading_el)
             paragraphs == CollectParagraphs(root, find_next_siblings(root, start), 1)
         IN  (IF paragraphs # <<>>
              THEN <<[section |-> section_name, paragraphs |-> paragraphs]>>
              ELSE <<>>)
             \o SectionsOf(root, Tail(heading_elements))

extract_funding_sections(root) ==
    SectionsOf(root,
               HeadingElements(root,
                   find_all(root, <<>>, HeadingTags \cup {"strong", "b", "p"})))

\* The blocks an article is put together from.
WrappedHeading ==      \* <div id="massive-fundings"><h2>Massive Fundings</h2></div>
    Tag("div", "massive-fundings", <<>>, <<Tag("h2", "", <<>>, <<TextNode(<<"M","a","s","s","i","v","e"," ","F","u","n","d","i","n","g","s">>)>>)>>)

BareHeading ==         \* <h2>Smaller Fundings</h2>
    Tag("h2", "", <<>>, <<TextNode(<<"S","m","a","l","l","e","r"," ","F","u","n","d","i","n","g","s">>)>>)

OtherHeading ==        \* <div><h3>Other News</h3></div>
    Tag("div", "", <<>>, <<Tag("h3", "", <<>>, <<TextNode(<<"O","t","h","e","r"," ","N","e","w","s">>)>>)>>)

LongHeading ==         \* <h2>People on the move this week</h2>, 28 characters
    Tag("h2", "", <<>>, <<TextNode(<<"P","e","o","p","l","e"," ","o","n"," ","t","h","e"," ","m","o","v","e"," ","t","h","i","s"," ","w","e","e","k">>)>>)

EmphasisHeading ==     \* <p><strong>Big-But-Not-Crazy-Big Fundings</strong></p>
    Tag("p", "", <<>>, <<Tag("strong", "", <<>>, <<TextNode(<<"B","i","g","-","B","u","t","-","N","o","t","-","C","r","a","z","y","-","B","i","g"," ","F","u","n","d","i","n","g","s">>)>>)>>)

Paragraph25 ==         \* <p> with a text of 25 characters and white space around it
    Tag("p", "", <<>>, <<TextNode(<<"\n"," ","A","c","m","e"," ","r","a","i","s","e","d"," ","$","5","M"," ","i","n"," ","a"," ","s","e","e","d"," ">>)>>)

Paragraph23 ==         \* <div><p>Bolt got a $2M <b>seed deal</b></p></div>: 23 characters
    Tag("div", "", <<>>, <<Tag("p", "", <<>>, <<TextNode(<<"B","o","l","t"," ","g","o","t"," ","a"," ","$","2","M"," ">>), Tag("b", "", <<>>, <<TextNode(<<"s","e","e","d"," ","d","e","a","l">>)>>)>>)>>)

Paragraph20 ==         \* <p> with a text of 20 characters and white space around it
    Tag("p", "", <<>>, <<TextNode(<<" ","P","h","o","t","o",":"," ","A","c","m","e"," ","f","o","u","n","d","e","r","s","\n">>)>>)

Blocks ==
    {WrappedHeading, BareHeading, OtherHeading, LongHeading, EmphasisHeading,
     Paragraph25, Paragraph23, Paragraph20}

\* An article has at most MaxBlocks blocks.
MaxBlocks == 3

\* The documents: the blocks are the children of body, of a div of class
\* post-content, of the div of id content-blocks, or of a div without either.
Document(blocks) ==
    Tag("[document]", "", <<>>, <<Tag("html", "", <<>>, <<Tag("body", "", <<>>, blocks)>>)>>)

Layouts == {"body", "post-content", "content-blocks", "plain"}

Article(layout, blocks) ==
    CASE layout = "body" -> Document(blocks)
      [] layout = "post-content" ->
            Document(<<Tag("div", "", <<>>,
                           <<Tag("div", "", <<<<"r","e","n","d","e","r","e","d">>, <<"p","o","s","t","-","c","o","n","t","e","n","t">>>>,
                                 <<TextNode(<<"\n">>)>> \o blocks)>>)>>)
      [] layout = "content-blocks" ->
            Document(<<Tag("div", "content-blocks", <<>>, blocks),
                       Tag("p", "", <<>>, <<TextNode(<<"S","u","b","s","c","r","i","b","e"," ","t","o"," ","t","h","e"," ","n","e","w","s","l","e","t","t","e","r"," ","t","o","d","a","y">>)>>)>>)
      [] layout = "plain" ->
            Document(<<Tag("div", "", <<<<"a","r","t","i","c","l","e">>>>, blocks),
                       Tag("p", "", <<>>, <<TextNode(<<"S","u","b","s","c","r","i","b","e"," ","t","o"," ","t","h","e"," ","n","e","w","s","l","e","t","t","e","r"," ","t","o","d","a","y">>)>>)>>)

\* "Massive Fundings", three paragraphs, "Smaller Fundings", one paragraph.
ExampleBlocks ==
    <<WrappedHeading, Paragraph25, Paragraph23, Paragraph25, BareHeading, Paragraph23>>

Articles ==
    {Article(layout, blocks) :
        layout \in Layouts, blocks \in SeqsUpTo(Blocks, MaxBlocks) \cup {ExampleBlocks}}

InitSections ==
    /\ soup \in Articles /\ sections = <<>> /\ section_pc = "call"
    /\ SlugIdle /\ FilterIdle /\ ParseIdle /\ SearchIdle /\ AppIdle /\ PipelineIdle

\* One call of extract_funding_sections(html), html being the markup of soup.
ExtractFundingSections ==
    /\ section_pc = "call"
    /\ sections' = extract_funding_sections(soup)
    /\ section_pc' = "done"
    /\ UNCHANGED <<soup, otherThanSections>>

NextSections == ExtractFundingSections

SpecSections == InitSections /\ [][NextSections]_vars

(***************************************************************************)
(* C10                                                                     *)
(***************************************************************************)
\* The tags of the document.
TagPaths(root) ==
    {p \in Range(DescendantsFrom(root, <<>>, 1)) : NodeAt(root, p).name # "#text"}

\* p comes before q in document order.
DocBefore(p, q) ==
    \/ Len(p) < Len(q) /\ SubSeq(q, 1, Len(p)) = p
    \/ \E i \in 1..Len(p) :
           /\ i <= Len(q)
           /\ SubSeq(p, 1, i - 1) = SubSeq(q, 1, i - 1)
           /\ p[i] < q[i]

\* The text of the tag at p contains a funding-heading label, whatever the case of
\* its letters.
HasLabel(root, p) ==
    \E k \in 1..Len(FUNDING_HEADINGS) :
        Contains(Lower(get_text(NodeAt(root, p))), FUNDING_HEADINGS[k])

\* The matched headings: the h1-h4, strong, b and p elements whose text contains a label.
MatchedHeadings(root) ==
    {p \in TagPaths(root) :
        /\ NodeAt(root, p).name \in {"h1", "h2", "h3", "h4", "strong", "b", "p"}
        /\ HasLabel(root, p)}

\* The tag at p is the content container, body or the document.
IsContentRoot(root, p) ==
    LET n == NodeAt(root, p)
    IN  \/ n.name \in {"body", "[document]"}
        \/ n.id = "content-blocks"
        \/ \E c \in 1..Len(n.class) : Contains(n.class[c], <<"p","o","s","t","-","c","o","n","t","e","n","t">>)

\* The wrapper of the heading at p: the heading or its ancestor that is a child of a
\* content root, the nearest one to the heading.
WrapperOf(root, p) ==
    LET candidates == {n \in 1..Len(p) : IsContentRoot(root, SubSeq(p, 1, n - 1))}
    IN  SubSeq(p, 1, CHOOSE n \in candidates : \A other \in candidates : other <= n)

\* The tag at p contains an h1-h4 element.
ContainsHeadingTag(root, p) ==
    \E d \in TagPaths(root) :
        /\ Len(d) > Len(p) /\ SubSeq(d, 1, Len(p)) = p
        /\ NodeAt(root, d).name \in {"h1", "h2", "h3", "h4"}

\* The child indices of the siblings that follow the wrapper w, of those that end
\* the section, and of those whose text the section keeps.
SiblingsAfter(root, w) ==
    {k \in 1..Len(NodeAt(root, Parent(w)).children) :
        k > w[Len(w)] /\ (Parent(w) \o <<k>>) \in TagPaths(root)}

SectionEnds(root, w) ==
    {k \in SiblingsAfter(root, w) :
        ContainsHeadingTag(root, Parent(w) \o <<k>>) \/ HasLabel(root, Parent(w) \o <<k>>)}

KeptSiblings(root, w) ==
    {k \in SiblingsAfter(root, w) :
        /\ \A e \in SectionEnds(root, w) : k < e
        /\ Len(get_text(NodeAt(root, Parent(w) \o <<k>>))) > 20}

\* The texts of the kept siblings, in document order.
ExpectedParagraphs(root, w) ==
    LET kept == KeptSiblings(root, w)
    IN  [n \in 1..Cardinality(kept) |->
            get_text(NodeAt(root, Parent(w) \o
                <<CHOOSE k \in kept : Cardinality({j \in kept : j <= k}) = n>>))]

\* The matched headings that have a qualifying paragraph.
EmittingHeadings(root) ==
    {p \in MatchedHeadings(root) : KeptSiblings(root, WrapperOf(root, p)) # {}}

ThreeParagraphs ==
    << <<"A","c","m","e"," ","r","a","i","s","e","d"," ","$","5","M"," ","i","n"," ","a"," ","s","e","e","d">>,
       <<"B","o","l","t"," ","g","o","t"," ","a"," ","$","2","M","s","e","e","d"," ","d","e","a","l">>,
       <<"A","c","m","e"," ","r","a","i","s","e","d"," ","$","5","M"," ","i","n"," ","a"," ","s","e","e","d">> >>

MatchingRules(s) ==
    {k \in 1..Len(FUNDING_PATTERNS) : PatternMatches(FUNDING_PATTERNS[k], s)}

\* The fields pattern number k captures in s.
FieldsOfRule(k, s) == ParsedEntry(search(FUNDING_PATTERNS[k], s), s)

\* C11: for every paragraph that some pattern matches, the returned fields are those
\* captured by the lowest-numbered pattern that matches, and the patterns evaluated
\* are those up to that one and no later one; a paragraph that matches both Rule A
\* and Rule C returns Rule A's fields, location and description included.
C11_FirstMatchWins ==
    parse_pc = "done" /\ MatchingRules(text) # {} =>
        LET first == CHOOSE k \in MatchingRules(text) : \A j \in MatchingRules(text) : k <= j
        IN  /\ entry = FieldsOfRule(first, text)
            /\ patterns_searched = [k \in 1..first |-> k]
            /\ {1, 3} \subseteq MatchingRules(text) =>
                   /\ entry.location = FieldsOfRule(1, text).location
                   /\ entry.description = FieldsOfRule(1, text).description

\* A paragraph that Rule A and Rule C both match has been parsed: the entry has the
\* location and description of Rule A, which Rule C does not capture.
C11_Witness ==
    /\ parse_pc = "done"
    /\ {1, 3} \subseteq MatchingRules(text)
    /\ entry.location # <<>> /\ entry.description # <<>>
    /\ FieldsOfRule(3, text).location = <<>>
    /\ patterns_searched = <<1>>

(***************************************************************************)
(* C12                                                                     *)
(***************************************************************************)
\* The last thing the run did was an ATS request that has returned.
RequestReturned == events # <<>> /\ events[Len(events)].e = "request"

\* C12: a failure of a single ATS request never aborts the run: whatever the failure
\* (network error or timeout, status other than 200, body that is not JSON, JSON of an
\* unexpected shape such as a null body or a null field), the fetcher reports no
\* result for that slug and platform and the search continues with the next
\* platform, slug and company (the sleep between requests comes next), and no
\* exception escapes search_company_jobs.
C12_NeverAborts ==
    /\ search_pc # "raised"
    /\ ats_response \in FailureKinds /\ RequestReturned =>
           /\ attempts[Len(attempts)].jobs = <<>>
           /\ search_pc = "api_sleep"

\* The first request for 'Notion', to greenhouse, was answered with the body null:
\* the exception has left search_company_jobs and the run has stopped.
C12_Witness ==
    /\ search_pc = "raised"
    /\ ats_response = "json_null"
    /\ Len(attempts) = 1
    /\ attempts[1].platform = "greenhouse"
    /\ company_ix = 0 /\ Len(companies) = 2

\* What does hold: a network error, a status other than 200 and a body that is not
\* JSON are reported as no result, and the search goes on.
C12_CaughtFailures ==
    ats_response \in {"network_error", "http_status", "not_json"} =>
        /\ search_pc # "raised"
        /\ RequestReturned =>
               /\ attempts[Len(attempts)].jobs = <<>>
               /\ search_pc = "api_sleep"

(***************************************************************************)
(* src/main.py: main; src/app.py: _run_pipeline -- the stages of one run   *)
(***************************************************************************)
\* A run handles at most MaxArticles articles.
MaxArticles == 2

\* The entries as the drivers read them: company and parsed.
EntryAb == [company |-> <<"A","b">>, parsed |-> TRUE]

EntryCd == [company |-> <<"C","d">>, parsed |-> TRUE]

EntryUnparsed == [company |-> <<>>, parsed |-> FALSE]

\* An entry marked parsed without a company: the drivers test e["company"] too.
EntryNameless == [company |-> <<>>, parsed |-> TRUE]

\* What parse_article returns for an article.
ArticleEntries ==
    { <<>>,
      <<EntryAb>>,
      <<EntryUnparsed, EntryCd, EntryAb>>,
      <<EntryAb, EntryNameless, EntryAb>>,
      <<EntryUnparsed>> }

\* list(dict.fromkeys(names)): the names without repetitions, in order of first
\* appearance.
RECURSIVE FromKeys(_, _)
FromKeys(names, seen) ==
    IF names = <<>> THEN <<>>
    ELSE IF Head(names) \in seen THEN FromKeys(Tail(names), seen)
    ELSE <<Head(names)>> \o FromKeys(Tail(names), seen \cup {Head(names)})

\* [e["company"] for e in all_entries if e["parsed"] and e["company"]]
RECURSIVE ParsedCompanies(_)
ParsedCompanies(entries) ==
    IF entries = <<>> THEN <<>>
    ELSE (IF Head(entries).parsed /\ Head(entries).company # <<>>
          THEN <<Head(entries).company>> ELSE <<>>)
         \o ParsedCompanies(Tail(entries))

\* The comprehension alone, without dict.fromkeys: a company named by two entries
\* is listed twice.
CompaniesWithRepeats(entries) == ParsedCompanies(entries)

\* companies (main.py 94-95, app.py 71-72)
CompaniesOf(entries) == FromKeys(ParsedCompanies(entries), {})

InitialStageLocals ==
    [urls |-> 0, scraped |-> 0, parsed |-> 0, all_entries |-> <<>>, companies |-> <<>>,
     ci |-> 0, found |-> 0]

InitPipeline ==
    /\ pipe_driver \in {"main", "app"}
    /\ skip_jobs \in (IF pipe_driver = "main" THEN BOOLEAN ELSE {FALSE})
    /\ pipe_pc = "fetch"
    /\ pipe_loc = InitialStageLocals
    /\ calls = <<>>
    /\ SlugIdle /\ FilterIdle /\ ParseIdle /\ SectionsIdle /\ SearchIdle /\ AppIdle

\* The collaborator is called and raises: main ends with the traceback,
\* _run_pipeline in its except clause.
CallRaises(call) ==
    /\ calls' = Append(calls, call)
    /\ pipe_pc' = "raised"
    /\ UNCHANGED pipe_loc

\* fetch_article_urls (main.py 53-58, app.py 42-48)
StageFetch ==
    /\ pipe_pc = "fetch"
    /\ \/ CallRaises([call |-> "fetch_article_urls"])
       \/ \E n \in 0..MaxArticles :
            /\ calls' = Append(calls, [call |-> "fetch_article_urls"])
            /\ pipe_loc' = [pipe_loc EXCEPT !.urls = n]
            /\ pipe_pc' = IF n = 0 THEN "exit" ELSE "scrape"
    /\ UNCHANGED <<pipe_driver, skip_jobs, otherThanPipeline>>

\* scrape_articles (main.py 63-66, app.py 53-57)
StageScrape ==
    /\ pipe_pc = "scrape"
    /\ \/ CallRaises([call |-> "scrape_articles"])
       \/ \E n \in 0..pipe_loc.urls :
            /\ calls' = Append(calls, [call |-> "scrape_articles"])
            /\ pipe_loc' = [pipe_loc EXCEPT !.scraped = n]
            /\ pipe_pc' = IF n = 0 THEN "exit" ELSE "parse"
    /\ UNCHANGED <<pipe_driver, skip_jobs, otherThanPipeline>>

\* for article in scraped: all_entries.extend(parse_article(article))
\* (main.py 70-73, app.py 62-64)
StageParse ==
    /\ pipe_pc = "parse"
    /\ IF pipe_loc.parsed = pipe_loc.scraped
       THEN /\ pipe_pc' = "save_fundings"
            /\ UNCHANGED <<calls, pipe_loc>>
       ELSE \/ CallRaises([call |-> "parse_article"])
            \/ \E entries \in ArticleEntries :
                 /\ calls' = Append(calls, [call |-> "parse_article"])
                 /\ pipe_loc' = [pipe_loc EXCEPT !.parsed = @ + 1,
                                                 !.all_entries = @ \o entries]
                 /\ UNCHANGED pipe_pc
    /\ UNCHANGED <<pipe_driver, skip_jobs, otherThanPipeline>>

\* save_fundings(all_entries) and what follows up to the job search: main exits
\* without entries and skips the search under --skip-jobs (main.py 84-103);
\* _run_pipeline goes on (app.py 67-75).
StageSaveFundings ==
    /\ pipe_pc = "save_fundings"
    /\ \/ CallRaises([call |-> "save_fundings"])
       \/ /\ calls' = Append(calls, [call |-> "save_fundings"])
          /\ IF pipe_driver = "main" /\ pipe_loc.all_entries = <<>>
             THEN pipe_pc' = "exit" /\ UNCHANGED pipe_loc
             ELSE IF skip_jobs
             THEN pipe_pc' = "save" /\ UNCHANGED pipe_loc
             ELSE /\ pipe_loc' = [pipe_loc EXCEPT !.companies = CompaniesOf(pipe_loc.all_entries)]
                  /\ pipe_pc' = IF CompaniesOf(pipe_loc.all_entries) # <<>> THEN "search" ELSE "save"
    /\ UNCHANGED <<pipe_driver, skip_jobs, otherThanPipeline>>

\* search_company_jobs(company) for the company of index ci (job_search.py 229-231,
\* app.py 76-88): it finds listings or none.
StageSearch ==
    /\ pipe_pc = "search"
    /\ LET call == [call |-> "search_company_jobs", company |-> pipe_loc.companies[pipe_loc.ci + 1]]
       IN  \/ CallRaises(call)
           \/ \E n \in 0..1 :
                /\ calls' = Append(calls, call)
                /\ IF pipe_loc.ci < Len(pipe_loc.companies) - 1
                   THEN /\ pipe_loc' = [pipe_loc EXCEPT !.found = @ + n]
                        /\ pipe_pc' = "sleep"
                   ELSE /\ pipe_loc' = [pipe_loc EXCEPT !.found = @ + n, !.ci = @ + 1]
                        /\ pipe_pc' = "save"
    /\ UNCHANGED <<pipe_driver, skip_jobs, otherThanPipeline>>

\* time.sleep(config.JOB_SEARCH_DELAY) (job_search.py 233-234, app.py 89-90)
StageSleep ==
    /\ pipe_pc = "sleep"
    /\ calls' = Append(calls, [call |-> "sleep"])
    /\ pipe_loc' = [pipe_loc EXCEPT !.ci = @ + 1]
    /\ pipe_pc' = "search"
    /\ UNCHANGED <<pipe_driver, skip_jobs, otherThanPipeline>>

\* if not jobs_df.empty: save_jobs(jobs_df) (main.py 109-110, app.py 96-97)
StageSaveJobs ==
    /\ pipe_pc = "save"
    /\ IF pipe_loc.found = 0
       THEN pipe_pc' = "done" /\ UNCHANGED <<calls, pipe_loc>>
       ELSE \/ CallRaises([call |-> "save_jobs"])
            \/ /\ calls' = Append(calls, [call |-> "save_jobs"])
               /\ pipe_pc' = "save_combined"
               /\ UNCHANGED pipe_loc
    /\ UNCHANGED <<pipe_driver, skip_jobs, otherThanPipeline>>

\* save_combined(all_entries, jobs_df) (main.py 113, app.py 98), which joins the
\* listings with the entries (output.py 62-79) and writes the result (81-88).
StageSaveCombined ==
    /\ pipe_pc = "save_combined"
    /\ \/ CallRaises([call |-> "save_combined"])
       \/ /\ calls' = calls \o <<[call |-> "merge"], [call |-> "save_combined"]>>
          /\ pipe_pc' = "done"
          /\ UNCHANGED pipe_loc
    /\ UNCHANGED <<pipe_driver, skip_jobs, otherThanPipeline>>

NextPipeline ==
    \/ StageFetch
    \/ StageScrape
    \/ StageParse
    \/ StageSaveFundings
    \/ StageSearch
    \/ StageSleep
    \/ StageSaveJobs
    \/ StageSaveCombined

SpecPipeline == InitPipeline /\ [][NextPipeline]_vars

(***************************************************************************)
(* C13: the order of the stages of a run                                   *)
(***************************************************************************)
\* The stage a collaborator call belongs to: fetch 1, scrape 2, parse 3, job
\* search 4, join 5, persist 6.
StageOf(c) ==
    CASE c.call = "fetch_article_urls" -> 1
      [] c.call = "scrape_articles" -> 2
      [] c.call = "parse_article" -> 3
      [] c.call \in {"search_company_jobs", "sleep"} -> 4
      [] c.call = "merge" -> 5
      [] c.call \in {"save_fundings", "save_jobs", "save_combined"} -> 6

SinkWrites == {"save_fundings", "save_jobs", "save_combined"}

\* C13: within one run, under both drivers, the collaborator calls are made in
\* the order fetch, scrape, parse, job search, join, persist -- a call of a later
\* stage is never followed by a call of an earlier one -- and no write to the
\* persistence sink is followed by a job search.
C13_StageOrder ==
    /\ \A i, j \in 1..Len(calls) : i < j => StageOf(calls[i]) <= StageOf(calls[j])
    /\ \A i, j \in 1..Len(calls) :
         calls[i].call \in SinkWrites /\ i < j => calls[j].call # "search_company_jobs"

\* A run of either driver that wrote the fundings and then searched a company.
C13_Witness ==
    /\ pipe_pc = "done"
    /\ \E i, j \in 1..Len(calls) :
         /\ i < j
         /\ calls[i].call = "save_fundings"
         /\ calls[j].call = "search_company_jobs"
    /\ calls[Len(calls)].call = "save_combined"

\* What the drivers do keep: fetch, scrape, parse and job search in this order,
\* and the listings and the joined rows written only after the last search.
C13_OrderKept ==
    /\ \A i, j \in 1..Len(calls) :
         i < j /\ StageOf(calls[i]) <= 4 /\ StageOf(calls[j]) <= 4
             => StageOf(calls[i]) <= StageOf(calls[j])
    /\ \A i, j \in 1..Len(calls) :
         calls[i].call \in {"save_jobs", "merge", "save_combined"} /\ i < j
             => StageOf(calls[j]) >= 5
    /\ \A i \in 1..Len(calls) :
         calls[i].call = "save_fundings"
             => \A j \in 1..Len(calls) : StageOf(calls[j]) <= 3 => j < i

(***************************************************************************)
(* C14: the company of a parsed entry                                      *)
(***************************************************************************)
\* C14: whenever parse_funding_paragraph returns parsed = true, under any of the
\* three rules, the company begins with an uppercase letter and contains no
\* comma.
C14_Company ==
    parse_pc = "done" /\ entry.parsed =>
        /\ entry.company # <<>>
        /\ entry.company[1] \in AsciiUpper
        /\ \A k \in 1..Len(entry.company) : entry.company[k] # ","

\* A paragraph whose first word is in lower case, parsed under the minimal rule
\* with that word as the company.
C14_Witness ==
    /\ parse_pc = "done"
    /\ entry.parsed
    /\ entry.company = <<"a", "b">>
    /\ text[1] = "a"
    /\ patterns_searched = <<1, 2, 3>>

\* What the patterns, compiled with re.IGNORECASE, do guarantee: the company
\* begins with a letter A-Z or a-z, has at least two characters and no comma.
C14_CompanyLetter ==
    parse_pc = "done" /\ entry.parsed =>
        /\ Len(entry.company) >= 2
        /\ entry.company[1] \in AsciiUpper \cup AsciiLower
        /\ \A k \in 1..Len(entry.company) : entry.company[k] # ","
        /\ entry.company[1] = text[1]

(***************************************************************************)
(* C15: what run_lock is held for                                          *)
(***************************************************************************)
\* The positions of _run_pipeline at a collaborator call: sitemap fetch, scraping,
\* parsing (with save_fundings), ATS search, sleep, file save.
CollaboratorCalls == {"fetch", "scrape", "parse", "search", "sleep", "save"}

\* The holder of the lock takes a step.
HolderMoves ==
    IF run_lock[1] = "thread"
    THEN thread_pc'[run_lock[2]] # thread_pc[run_lock[2]]
    ELSE handler_pc'[run_lock[2]] # handler_pc[run_lock[2]]

\* The step by which the holder leaves its with block.
HolderLeaves ==
    IF run_lock[1] = "thread"
    THEN ThreadProgress(run_lock[2]) \/ ThreadTerminal(run_lock[2])
    ELSE ApiRunCheck(run_lock[2]) \/ ApiStatusCopy(run_lock[2])

\* C15: run_lock is held for one read or update of run_state only.  A handler
\* is inside api_run's or api_status's with block exactly when it holds the lock,
\* and a thread that holds it is at a with block of _run_pipeline, never at a
\* collaborator call; run_state changes only in a step of the holder, who
\* releases the lock in that step, its first after taking the lock; and the holder
\* can always take that step, so the lock is never held across a wait and a
\* status request is admitted as soon as the holder has left.
C15_LockDiscipline ==
    /\ [](\A h \in Handlers :
            handler_pc[h] \in {"run_check", "status_copy"} <=> run_lock = <<"handler", h>>)
    /\ [](\A t \in Threads :
            /\ run_lock = <<"thread", t>> => thread_pc[t] \in ProgressBlocks \cup TerminalBlocks
            /\ thread_pc[t] \in CollaboratorCalls => run_lock # <<"thread", t>>)
    /\ [][run_state' # run_state => run_lock # <<>> /\ run_lock' = <<>> /\ HolderMoves]_vars
    /\ [][run_lock # <<>> =>
            \/ run_lock' = <<>> /\ HolderMoves
            \/ run_lock' = run_lock /\ ~HolderMoves /\ run_state' = run_state]_vars
    /\ [](run_lock # <<>> => ENABLED HolderLeaves)
    /\ [](run_lock = <<>> => \A h \in Handlers : handler_pc[h] = "idle" => ENABLED ApiStatusBegin(h))

\* A status request is being served between the progress message of a running
\* pipeline and its ATS search.
C15_Witness ==
    \E h \in Handlers : \E t \in Threads :
        /\ handler_pc[h] = "status_copy"
        /\ run_lock = <<"handler", h>>
        /\ thread_pc[t] = "search"
        /\ run_state.progress[1] = "Searching jobs for {company} ({i + 1}/{len(companies)})..."

(***************************************************************************)
(* C16: the lifecycle of run_state.status                                  *)
(***************************************************************************)
\* The step is api_run's acceptance of a start request.
AcceptedStart ==
    \E h \in Handlers : handler_pc[h] = "run_check" /\ handler_pc'[h] = "run_spawn"

\* The step is the terminal block of a pipeline thread, which ends with it.
TerminalWrite ==
    \E t \in Threads :
        /\ thread_pc[t] \in TerminalBlocks
        /\ thread_pc'[t] = "finished"
        /\ terminal_writes[t] = 0

\* C16: run_state.status is idle, running, done or error; it changes only from
\* idle, done or error to running, by an accepted start, and from running to done
\* or error, by a pipeline thread (so never back to idle and never between done
\* and error); and a thread that has written its terminal status has ended: it
\* stays finished and no later change of run_state is its own.
C16_Lifecycle ==
    /\ [](run_state.status \in {"idle", "running", "done", "error"})
    /\ [][run_state'.status # run_state.status =>
            \/ /\ run_state.status \in {"idle", "done", "error"}
               /\ run_state'.status = "running"
               /\ AcceptedStart
            \/ /\ run_state.status = "running"
               /\ run_state'.status \in {"done", "error"}
               /\ TerminalWrite]_vars
    /\ [](\A t \in Threads : terminal_writes[t] > 0 => thread_pc[t] = "finished")
    /\ [][\A t \in Threads :
            thread_pc[t] = "finished" =>
                /\ thread_pc'[t] = "finished"
                /\ run_lock' # <<"thread", t>>
                /\ terminal_writes'[t] = terminal_writes[t]]_vars
    /\ [][run_state' # run_state =>
            \/ AcceptedStart
            \/ \E t \in Threads : run_lock = <<"thread", t>> /\ terminal_writes[t] = 0]_vars

\* The status has gone from idle to running, to a terminal status, and to running
\* again: the thread of the first run has ended and that of the second is at its
\* job search.
C16_Witness ==
    /\ run_state.status = "running"
    /\ \E t, u \in Threads :
         /\ thread_pc[t] = "finished" /\ terminal_writes[t] = 1
         /\ thread_pc[u] = "search" /\ terminal_writes[u] = 0

(***************************************************************************)
(* C17: the companies handed to the job search                             *)
(***************************************************************************)
\* The companies search_company_jobs has been called with, in order.
RECURSIVE SearchedIn(_)
SearchedIn(cs) ==
    IF cs = <<>> THEN <<>>
    ELSE (IF Head(cs).call = "search_company_jobs" THEN <<Head(cs).company>> ELSE <<>>)
         \o SearchedIn(Tail(cs))

\* The positions of the entries that are parsed and name a company.
Searchable(entries) ==
    {k \in 1..Len(entries) : entries[k].parsed /\ entries[k].company # <<>>}

\* Where a company first appears among the searchable entries.
FirstAppearance(entries, c) ==
    CHOOSE k \in Searchable(entries) :
        /\ entries[k].company = c
        /\ \A j \in Searchable(entries) : entries[j].company = c => k <= j

\* C17: in a run that searches, of either driver, the companies searched so far
\* are a prefix of the list handed to the job search, and all of it when the run
\* is done; that list holds exactly the companies of the entries with parsed =
\* true and a non-empty company, each once, in the order of their first
\* appearance among the entries; no search is made for an empty company or when
\* the list is empty.
C17_Companies ==
    LET entries == pipe_loc.all_entries
        handed == pipe_loc.companies
        searched == SearchedIn(calls)
    IN  /\ pipe_pc \in {"search", "sleep", "save", "save_combined", "done"} /\ ~skip_jobs =>
              /\ handed = CompaniesOf(entries)
              /\ {handed[k] : k \in 1..Len(handed)}
                    = {entries[k].company : k \in Searchable(entries)}
              /\ \A i, j \in 1..Len(handed) :
                    i < j => /\ handed[i] # handed[j]
                             /\ FirstAppearance(entries, handed[i])
                                   < FirstAppearance(entries, handed[j])
              /\ Len(searched) <= Len(handed)
              /\ searched = SubSeq(handed, 1, Len(searched))
              /\ pipe_pc \in {"save", "save_combined", "done"} => searched = handed
        /\ \A k \in 1..Len(searched) : searched[k] # <<>>
        /\ skip_jobs \/ Searchable(entries) = {} => searched = <<>>

\* A finished run whose entries held an unparsed entry, a parsed entry without a
\* company and a company named twice: two companies were searched, 'Cd' before
\* 'Ab' as the second article named them.
C17_Witness ==
    /\ pipe_pc = "done"
    /\ Len(pipe_loc.all_entries) = 6
    /\ pipe_loc.all_entries[1] = EntryUnparsed
    /\ \E k \in 1..6 : pipe_loc.all_entries[k] = EntryNameless
    /\ SearchedIn(calls) = <<EntryCd.company, EntryAb.company>>

(***************************************************************************)
(* C18: what a status snapshot shows                                       *)
(***************************************************************************)
\* C18: in every state, and so in every snapshot api_status takes while it
\* holds run_lock, run_state.running is true exactly when run_state.status is
\* "running", and while the status is "running" the fields fundings, jobs,
\* combined and summary are empty.
C18_Snapshot ==
    /\ run_state.running <=> run_state.status = "running"
    /\ run_state.status = "running" => ResultsEmpty(run_state)
    /\ \A h \in Handlers :
         handler_pc[h] = "status_copy" /\ run_state.running =>
             /\ run_state.status = "running"
             /\ ResultsEmpty(run_state)

\* api_status takes its snapshot during a second run, after the first run has
\* ended and while the thread of the second holds listings it has found.
C18_Witness ==
    \E h \in Handlers : \E t, u \in Threads :
        /\ handler_pc[h] = "status_copy"
        /\ thread_pc[t] = "finished" /\ terminal_writes[t] = 1
        /\ thread_pc[u] = "sleep" /\ thread_loc[u].jobs # <<>>
        /\ run_state.running

=============================================================================
